---- MODULE Spec2Model ----
(***************************************************************************)
(* Asynchronous document-conversion job pipeline of server.py: the job     *)
(* registry CONVERSION_JOBS, the per-job handler thread                    *)
(* _run_document_conversion_job, the status poller and the download        *)
(* endpoint with its after-request cleanup; the worker pool                 *)
(* BatchProcessor of src/processors/batch_processor.py; and the archive    *)
(* chain ArchiveConverter.convert of src/converters/archive_converters.py  *)
(* with the compressors it calls; FileUtils.merge_files of                 *)
(* src/core/file_utils.py; and the one-call endpoint convert_document of   *)
(* server.py.  Each has its own variables and its own specifications.      *)
(***************************************************************************)
EXTENDS Integers, Sequences, FiniteSets, TLC

(***************************************************************************)
(* Bounds and input alphabets                                              *)
(***************************************************************************)
NumJobs == 2

JobIds == 1..NumJobs

\* Python's None
None == "None"

\* suffixes of uploaded file names, before .lower()
Suffixes == {".csv", ".CSV", ".docx", ".pptx", ".pub", ".zip", ""}

\* document_type form values after strip().lower(), "" already replaced by "auto"
SelectedTypes == {"auto", "text", "spreadsheet", "presentation", "publisher", "image"}

\* output_profile form values after strip().lower(), "" already replaced by "modern"
Profiles == {"legacy", "modern", "draft"}

\* output_format form values after the leading dot is added
OutFormats == {".pdf", ".ppt", ".xlsx", ".csv", ".epub", ".docx"}

AllRequests ==
    [suffix : Suffixes, documentType : SelectedTypes,
     outputProfile : Profiles, outputFormat : OutFormats]

Req(s, t, p, o) ==
    [suffix |-> s, documentType |-> t, outputProfile |-> p, outputFormat |-> o]

\* the requests used where several jobs run together: one that passes the
\* validation and two that fail it
Requests ==
    { Req(".docx", "auto", "modern", ".pdf"),
      Req(".csv", "presentation", "modern", ".pdf"),
      Req(".csv", "auto", "modern", ".ppt") }

\* the jobs of the polling scenario; the first one has a polling client
PollJobs == {1, 2}

PolledJobs == {1}

\* the clients that may ask for the download of a job at the same time
NumClients == 2
Clients == 1..NumClients

\* BatchProcessor: the largest worker_count asked for, the worker threads ever
\* created, the calls of start() and the jobs submitted
MaxWorkerCount == 2
MaxThreads == 2
MaxStarts == 2
MaxSubmits == 2

ThreadIds == 1..MaxThreads
PoolJobs == 1..MaxSubmits

\* the worker_count argument: missing (<<>>), negative, zero or positive
WorkerCountArgs == {<<>>} \cup {<<n>> : n \in -1..MaxWorkerCount}

\* FileUtils.merge_files: the longest list of parts
MaxParts == 3

(***************************************************************************)
(* Compatibility tables                                                    *)
(***************************************************************************)
DocTypeOrder == <<"text", "spreadsheet", "presentation", "publisher">>

DOCUMENT_TYPE_INPUTS ==
    [text |-> {".txt", ".rtf", ".doc", ".docx", ".odt", ".ott", ".sxw",
               ".html", ".htm", ".xml", ".epub", ".fodt"},
     spreadsheet |-> {".xls", ".xlsx", ".ods", ".ots", ".csv", ".fods"},
     presentation |-> {".ppt", ".pptx", ".odp", ".otp", ".fodp"},
     publisher |-> {".pub"}]

OUTPUT_PROFILE_FORMATS ==
    [text |->
        [legacy |-> <<".pdf", ".txt", ".rtf", ".doc", ".html", ".xml">>,
         modern |-> <<".pdf", ".txt", ".docx", ".odt", ".html", ".xml", ".epub">>],
     spreadsheet |->
        [legacy |-> <<".pdf", ".xls", ".csv">>,
         modern |-> <<".pdf", ".xlsx", ".ods", ".csv">>],
     presentation |->
        [legacy |-> <<".pdf", ".ppt">>,
         modern |-> <<".pdf", ".pptx", ".odp">>],
     publisher |->
        [legacy |-> <<".pdf">>,
         modern |-> <<".pdf", ".epub">>]]

\* str.lower() on the suffixes of the input alphabet
Lower(s) == IF s = ".CSV" THEN ".csv" ELSE s

RECURSIVE DetectFrom(_, _)
DetectFrom(i, ext) ==
    IF i > Len(DocTypeOrder) THEN None
    ELSE IF ext \in DOCUMENT_TYPE_INPUTS[DocTypeOrder[i]] THEN DocTypeOrder[i]
    ELSE DetectFrom(i + 1, ext)

_detect_document_type(ext) == DetectFrom(1, ext)

_get_output_formats_for(doc_type, output_profile) ==
    IF doc_type \in DOMAIN OUTPUT_PROFILE_FORMATS
    THEN IF output_profile \in DOMAIN OUTPUT_PROFILE_FORMATS[doc_type]
         THEN OUTPUT_PROFILE_FORMATS[doc_type][output_profile]
         ELSE <<>>
    ELSE <<>>

InList(x, seq) == \E i \in 1..Len(seq) : seq[i] = x

\* failure messages of the handler
MsgUnsupportedSource == "Unsupported source file type"
MsgUnsupportedType == "Unsupported document type"
MsgUnsupportedProfile == "Unsupported output profile"
MsgTypeMismatch == "File type mismatch"
MsgOutputNotAllowed == "Output format is not allowed"
MsgOk == "ok"

\* variant for C6: the agreement of declared and detected type is not checked
HandlerValidate_NoMismatchCheck(r) ==
    LET detected_type == _detect_document_type(Lower(r.suffix))
        selected_type == r.documentType
        effective_type == IF selected_type = "auto" THEN detected_type ELSE selected_type
    IN  IF detected_type = None THEN MsgUnsupportedSource
        ELSE IF selected_type # "auto" /\ selected_type \notin DOMAIN OUTPUT_PROFILE_FORMATS
             THEN MsgUnsupportedType
        ELSE IF r.outputProfile \notin {"legacy", "modern"} THEN MsgUnsupportedProfile
        ELSE IF ~InList(r.outputFormat, _get_output_formats_for(effective_type, r.outputProfile))
             THEN MsgOutputNotAllowed
        ELSE MsgOk

\* variant for C7: the profile is checked before the declared type
HandlerValidate_ProfileFirst(r) ==
    LET detected_type == _detect_document_type(Lower(r.suffix))
        selected_type == r.documentType
        effective_type == IF selected_type = "auto" THEN detected_type ELSE selected_type
    IN  IF detected_type = None THEN MsgUnsupportedSource
        ELSE IF r.outputProfile \notin {"legacy", "modern"} THEN MsgUnsupportedProfile
        ELSE IF selected_type # "auto" /\ selected_type \notin DOMAIN OUTPUT_PROFILE_FORMATS
             THEN MsgUnsupportedType
        ELSE IF selected_type # "auto" /\ selected_type # detected_type THEN MsgTypeMismatch
        ELSE IF ~InList(r.outputFormat, _get_output_formats_for(effective_type, r.outputProfile))
             THEN MsgOutputNotAllowed
        ELSE MsgOk

\* the chain of validation checks of _run_document_conversion_job, in code order
HandlerValidate(r) ==
    LET detected_type == _detect_document_type(Lower(r.suffix))
        selected_type == r.documentType
        effective_type == IF selected_type = "auto" THEN detected_type ELSE selected_type
    IN  IF detected_type = None THEN MsgUnsupportedSource
        ELSE IF selected_type # "auto" /\ selected_type \notin DOMAIN OUTPUT_PROFILE_FORMATS
             THEN MsgUnsupportedType
        ELSE IF r.outputProfile \notin {"legacy", "modern"} THEN MsgUnsupportedProfile
        ELSE IF selected_type # "auto" /\ selected_type # detected_type THEN MsgTypeMismatch
        ELSE IF ~InList(r.outputFormat, _get_output_formats_for(effective_type, r.outputProfile))
             THEN MsgOutputNotAllowed
        ELSE MsgOk

(***************************************************************************)
(* Archive chain: strings, file names and file contents                    *)
(*                                                                         *)
(* A string is a sequence of pieces; a piece has a dot at most at its      *)
(* start, so a suffix that begins with a dot begins at a piece.  Flat      *)
(* gives the string itself.                                                *)
(***************************************************************************)
\* the longest chain specification tried piece by piece
MaxSpecLen == 4

\* the pieces chain specifications are built from
ParseChunks == {"zip", "ZIP", "tar", ".gz", "-", "=", ">", ",", "|", " "}

\* pieces that begin with a dot
DottedChunks == {".", ".zip", ".ZIP", ".tar", ".TAR", ".gz", ".Gz", ".bz2", ".xz", ".tgz",
                 ".tbz2", ".txz", ".7z", ".txt", ".bin"}

RECURSIVE Flat(_)
Flat(str) == IF str = <<>> THEN "" ELSE Head(str) \o Flat(Tail(str))

\* str.lower()
LowerChunk(c) ==
    IF c = "ZIP" THEN "zip" ELSE IF c = ".ZIP" THEN ".zip"
    ELSE IF c = ".TAR" THEN ".tar" ELSE IF c = ".Gz" THEN ".gz" ELSE c
LowerStr(str) == [i \in DOMAIN str |-> LowerChunk(str[i])]

RECURSIVE LStrip(_)
LStrip(str) ==
    IF str # <<>> /\ Head(str) = " " THEN LStrip(Tail(str)) ELSE str

RECURSIVE RStrip(_)
RStrip(str) ==
    IF str # <<>> /\ str[Len(str)] = " "
    THEN RStrip(SubSeq(str, 1, Len(str) - 1)) ELSE str

\* str.strip()
Strip(str) == RStrip(LStrip(str))

\* every chain specification of at most MaxSpecLen pieces
AllChainSpecs == UNION {[1..n -> ParseChunks] : n \in 0..MaxSpecLen}

\* chain specifications tried against every input
ChainSpecs ==
    { <<"zip">>,
      <<"zip", ">", "tar", ".gz">>,
      <<"ZIP", " ", "-", ">", " ", ".tar", ".gz">>,
      <<"zip", ",", ".gz">>,
      <<"tar", "|", ".bz2">>,
      <<"tar", "=", ">", "7z">>,
      <<".zip", ",", "zip">>,
      <<>>,
      <<"zip", ",", "rar">>,
      <<".tar", ".gz", ",", "xz", ",", "zip">> }

\* paths: the folder and the name in it
NoPath == <<"", <<>>>>
InPath(name) == <<"in", name>>
OutPath(name) == <<"out", name>>

\* file contents: a plain file, an archive file with its top-level entries, a
\* folder with its entries
RawFile(b) == [kind |-> "file", enc |-> "raw", body |-> b, items |-> {}]
ArchiveFile(e, entries) == [kind |-> "file", enc |-> e, body |-> "", items |-> entries]
Folder(entries) == [kind |-> "dir", enc |-> "", body |-> "", items |-> entries]
Entry(name, node) == [name |-> name, node |-> node]
NoEntry == Entry(<<>>, RawFile(""))

\* what is on disk before the call
InitialFs ==
    (InPath(<<"f", ".txt">>) :> RawFile("c1"))
    @@ (InPath(<<"a", ".zip">>) :>
          ArchiveFile("zip", {Entry(<<"x", ".txt">>, RawFile("c2"))}))
    @@ (InPath(<<"m", ".zip">>) :>
          ArchiveFile("zip", {Entry(<<"x", ".txt">>, RawFile("c1")),
                              Entry(<<"y", ".txt">>, RawFile("c2"))}))
    @@ (InPath(<<"d">>) :> Folder({Entry(<<"x", ".txt">>, RawFile("c1"))}))
    @@ (InPath(<<"n", ".zip">>) :> RawFile("c1"))

\* input_file of the call: the files and the folder on disk, and a missing one
ChainInputs == DOMAIN InitialFs \cup {InPath(<<"gone", ".txt">>)}

\* the longest file name given to the format detection, in pieces
MaxNameLen == 3

\* the file names given to the format detection
DetectNames ==
    UNION {[1..n -> {"a", "gz", ".tar", ".TAR", ".gz", ".Gz", ".bz2", ".xz", ".zip", ".ZIP",
                     ".tgz", ".7z", ".txt"}] : n \in 1..MaxNameLen}

\* output_file of the call: <<>> when the caller gives none
OutputFiles == {<<>>, <<OutPath(<<"r", ".zip">>)>>, <<OutPath(<<"r", ".tar", ".gz">>)>>,
                <<OutPath(<<"r", ".bin">>)>>}

NoCall == [input_file |-> NoPath, output_format |-> <<>>, output_file |-> <<>>,
           seven_z |-> FALSE]

NoChainResult ==
    [kind |-> "none", success |-> FALSE, message |-> None, failed_step |-> 0,
     keys |-> {}, steps |-> <<>>, chain |-> <<>>, output_file |-> NoPath]

(***************************************************************************)
(* merge_files: the parts and their names                                  *)
(***************************************************************************)
\* the part files and what they hold; a name is a sequence of characters
PartFiles ==
    (<<"a", "0">> :> <<"hello ">>) @@ (<<"a", "1">> :> <<"world">>) @@
    (<<"a", "/", "0">> :> <<"in a ">>) @@ (<<"a", ".", "0">> :> <<"dotted ">>)

\* the lists of parts: existing files, each given as a str or as a Path
\* object, in any order
PartLists ==
    UNION {[1..n -> [type : {"str", "Path"}, text : DOMAIN PartFiles]] : n \in 0..MaxParts}

NoMergeCall == [file_parts |-> <<>>, output_file |-> <<>>, called |-> FALSE]

NoMergeResult == [kind |-> "none", value |-> <<>>]

(***************************************************************************)
(* State                                                                   *)
(***************************************************************************)
VARIABLES
    jobRec,          \* the job dicts ever created, by job id (kept while referenced)
    CONVERSION_JOBS, \* keys of the registry: ids whose dict is still registered
    hpc,             \* position of each job's handler thread
    hloc,            \* locals of the handler, read from the dict on entry
    result,          \* what toolkit.document_converter.convert returned to the handler
    invoked,         \* number of calls of the converter made for the job
    outfile,         \* whether a file exists at the job's outputPath
    observed,        \* value of output_path.exists() seen by the handler
    ppc,             \* position of the job's status poller
    pread,           \* fields the poller has read so far in the current call
    resp,            \* last response of get_document_conversion_status
    dpc,             \* position of each client's download request for the job
    dresp,           \* last response code of download_document_conversion, by client
    popCalls         \* number of cleanups that have called _pop_job for the job

\* BatchProcessor
VARIABLES
    worker_count,    \* self.worker_count; 0 until the pool is constructed
    _queue,          \* self._queue: job ids in the order they wait
    _in_progress,    \* keys of self._in_progress
    _threads,        \* number of worker threads created so far
    _running,        \* self._running
    wpc,             \* position of each worker thread in _worker_loop
    wjob,            \* the worker's local `queued.job_id`
    startCalls,      \* number of calls of start() made
    submitLog,       \* job ids in the order submit() appended them
    dequeueLog,      \* job ids in the order workers took them off the queue
    beginLog,        \* job ids in the order their handlers began
    drained          \* job ids taken off the queue while _running was False

\* ArchiveConverter.convert
VARIABLES
    fs,                 \* the files and folders that exist, by path
    tempDirs,           \* the temporary directories that exist
    cpc,                \* position of the call of convert
    call,               \* arguments of the call and whether a 7z binary is installed
    target_chain,       \* local of convert
    final_output_path,  \* local of convert
    index,              \* loop index of convert
    current_input,      \* local of convert
    steps,              \* local of convert
    source_payload,     \* local of _convert_single: what is compressed
    source_format,      \* local of _convert_single
    cresult,            \* what convert returned or raised
    writtenPaths        \* the paths the call has written so far

\* FileUtils.merge_files
VARIABLES
    mfiles,          \* the content of the files merge_files can open, by path
    mcall,           \* arguments of the call of merge_files
    mresult          \* what merge_files returned or raised

\* convert_document, the synchronous endpoint
VARIABLES
    sync             \* the request it served, its response and whether it
                     \* called the converter

svars == <<jobRec, CONVERSION_JOBS, hpc, hloc, result, invoked, outfile, observed,
           ppc, pread, resp, dpc, dresp, popCalls>>

poolvars == <<worker_count, _queue, _in_progress, _threads, _running, wpc, wjob,
              startCalls, submitLog, dequeueLog, beginLog, drained>>

chainvars == <<fs, tempDirs, cpc, call, target_chain, final_output_path, index,
               current_input, steps, source_payload, source_format, cresult, writtenPaths>>

mergevars == <<mfiles, mcall, mresult>>

syncvars == <<sync>>

vars == <<svars, poolvars, chainvars, mergevars, syncvars>>

\* what an action of the job endpoints leaves alone, and what one of the pool does
nonServer == <<poolvars, chainvars, mergevars, syncvars>>
nonPool == <<svars, chainvars, mergevars, syncvars>>
nonChain == <<svars, poolvars, mergevars, syncvars>>
nonMerge == <<svars, poolvars, chainvars, syncvars>>
nonSync == <<svars, poolvars, chainvars, mergevars>>

hvars == <<hpc, hloc, result, invoked, outfile, observed>>
pvars == <<ppc, pread, resp>>
dvars == <<dpc, dresp, popCalls>>

NoLocals == [suffix |-> None, outputFormat |-> None, documentType |-> None,
             outputProfile |-> None]

NoResult == [kind |-> "none", success |-> FALSE, message |-> None, error |-> None]

\* results the external converter can hand back: success, or failure with or
\* without a message and an error detail
ConverterResults ==
    {[kind |-> "returned", success |-> TRUE, message |-> "Converted", error |-> None]}
    \cup
    [kind : {"returned"}, success : {FALSE},
     message : {None, "converter message"}, error : {None, "converter error"}]

NoResponse == [code |-> 0]

NoSync == [pc |-> "idle", request |-> None, code |-> 0, message |-> None,
           invoked |-> FALSE]

Init ==
    /\ jobRec = <<>>
    /\ CONVERSION_JOBS = {}
    /\ hpc = [j \in JobIds |-> "none"]
    /\ hloc = [j \in JobIds |-> NoLocals]
    /\ result = [j \in JobIds |-> NoResult]
    /\ invoked = [j \in JobIds |-> 0]
    /\ outfile = [j \in JobIds |-> FALSE]
    /\ observed = [j \in JobIds |-> "unchecked"]
    /\ ppc = [j \in JobIds |-> "idle"]
    /\ pread = [j \in JobIds |-> [status |-> None, progress |-> 0]]
    /\ resp = [j \in JobIds |-> NoResponse]
    /\ dpc = [j \in JobIds |-> [c \in Clients |-> "idle"]]
    /\ dresp = [j \in JobIds |-> [c \in Clients |-> 0]]
    /\ popCalls = [j \in JobIds |-> 0]
    /\ worker_count = 0
    /\ _queue = <<>>
    /\ _in_progress = {}
    /\ _threads = 0
    /\ _running = FALSE
    /\ wpc = [t \in ThreadIds |-> "none"]
    /\ wjob = [t \in ThreadIds |-> 0]
    /\ startCalls = 0
    /\ submitLog = <<>>
    /\ dequeueLog = <<>>
    /\ beginLog = <<>>
    /\ drained = {}
    /\ fs = InitialFs
    /\ tempDirs = {}
    /\ cpc = "idle"
    /\ call = NoCall
    /\ target_chain = <<>>
    /\ final_output_path = NoPath
    /\ index = 0
    /\ current_input = NoPath
    /\ steps = <<>>
    /\ source_payload = NoEntry
    /\ source_format = None
    /\ cresult = NoChainResult
    /\ writtenPaths = {}
    /\ mfiles = PartFiles
    /\ mcall = NoMergeCall
    /\ mresult = NoMergeResult
    /\ sync = NoSync

(***************************************************************************)
(* Registry                                                                *)
(***************************************************************************)
\* _update_job: merge the updates into the dict if the id is registered
_update_job(job_id, updates) ==
    IF job_id \in CONVERSION_JOBS
    THEN jobRec' = [jobRec EXCEPT ![job_id] = updates @@ jobRec[job_id]]
    ELSE UNCHANGED jobRec

\* _get_job: whether the registry has the id (the dict itself is jobRec[job_id])
_get_job(job_id) == job_id \in CONVERSION_JOBS

\* variant for C15: the cleanup leaves the registry as it is
_pop_job_Keeps(job_id) == UNCHANGED CONVERSION_JOBS

\* _pop_job
_pop_job(job_id) == CONVERSION_JOBS' = CONVERSION_JOBS \ {job_id}

\* variant for C3: a failure update that leaves the progress where it was
FailedUpdate_KeepsProgress(msg) ==
    [status |-> "failed", stage |-> "failed", message |-> msg]

FailedUpdate(msg) ==
    [status |-> "failed", progress |-> 100, stage |-> "failed", message |-> msg]

\* variant for C10: the except branch notes the exception and leaves the status
ExceptionUpdate_NoStatus ==
    [message |-> "Conversion failed: exception", error |-> "exception"]

\* the except branch of the handler
ExceptionUpdate ==
    [status |-> "failed", progress |-> 100, stage |-> "failed",
     message |-> "Conversion failed: exception", error |-> "exception"]

(***************************************************************************)
(* start_document_conversion                                               *)
(***************************************************************************)
\* the 202 response of start_document_conversion
StartResponse(j) ==
    [code |-> 202, jobId |-> j, status |-> "queued", progress |-> 5,
     stage |-> "queued", message |-> "Job started"]

StartJob(j, r) ==
    /\ j \notin DOMAIN jobRec
    /\ jobRec' = jobRec @@ (j :>
          [jobId |-> j, status |-> "queued", progress |-> 5, stage |-> "queued",
           message |-> "Job queued", inputPath |-> r.suffix,
           outputFormat |-> r.outputFormat, documentType |-> r.documentType,
           outputProfile |-> r.outputProfile, outputFile |-> None,
           outputFilename |-> None, conversionId |-> None, error |-> None])
    /\ CONVERSION_JOBS' = CONVERSION_JOBS \cup {j}
    /\ hpc' = [hpc EXCEPT ![j] = "start"]
    /\ resp' = [resp EXCEPT ![j] = StartResponse(j)]
    /\ UNCHANGED <<hloc, result, invoked, outfile, observed, ppc, pread, dvars>>
    /\ UNCHANGED nonServer

(***************************************************************************)
(* _run_document_conversion_job, one action per step between two registry  *)
(* operations                                                              *)
(***************************************************************************)
\* job = _get_job(job_id); return if it is gone, else read the locals
HandlerEnter(j) ==
    /\ hpc[j] = "start"
    /\ IF _get_job(j)
       THEN /\ hloc' = [hloc EXCEPT ![j] =
                   [suffix |-> jobRec[j].inputPath,
                    outputFormat |-> jobRec[j].outputFormat,
                    documentType |-> jobRec[j].documentType,
                    outputProfile |-> jobRec[j].outputProfile]]
            /\ hpc' = [hpc EXCEPT ![j] = "try"]
       ELSE /\ hpc' = [hpc EXCEPT ![j] = "done"]
            /\ UNCHANGED hloc
    /\ UNCHANGED <<jobRec, CONVERSION_JOBS, result, invoked, outfile, observed,
                   pvars, dvars>>
    /\ UNCHANGED nonServer

\* variant for C5: the first update leaves the status queued
RunningUpdate_NoStatus ==
    [progress |-> 15, stage |-> "validating", message |-> "Validating input file..."]

\* first update of the try block
RunningUpdate ==
    [status |-> "running", progress |-> 15, stage |-> "validating",
     message |-> "Validating input file..."]

\* variant for C2: the converting checkpoint is below the validating one
ConvertingUpdate_Low ==
    [progress |-> 10, stage |-> "converting", message |-> "Converting with LibreOffice..."]

\* update made once every validation check passed
ConvertingUpdate ==
    [progress |-> 60, stage |-> "converting", message |-> "Converting with LibreOffice..."]

\* update made once the converter reported success
FinalizingUpdate ==
    [progress |-> 90, stage |-> "finalizing", message |-> "Preparing download..."]

\* first statement of the try block
HandlerRunning(j) ==
    /\ hpc[j] = "try"
    /\ _update_job(j, RunningUpdate)
    /\ hpc' = [hpc EXCEPT ![j] = "validating"]
    /\ UNCHANGED <<CONVERSION_JOBS, hloc, result, invoked, outfile, observed,
                   pvars, dvars>>
    /\ UNCHANGED nonServer

\* the validation checks and the update that follows them
HandlerChecks(j) ==
    /\ hpc[j] = "validating"
    /\ LET verdict == HandlerValidate(hloc[j])
       IN  IF verdict # MsgOk
           THEN /\ _update_job(j, FailedUpdate(verdict))
                /\ hpc' = [hpc EXCEPT ![j] = "done"]
           ELSE /\ _update_job(j, ConvertingUpdate)
                /\ hpc' = [hpc EXCEPT ![j] = "converting"]
    /\ UNCHANGED <<CONVERSION_JOBS, hloc, result, invoked, outfile, observed,
                   pvars, dvars>>
    /\ UNCHANGED nonServer

\* toolkit.document_converter.convert returns: any result, with or without a
\* file written at output_path
ConverterReturns(j) ==
    /\ hpc[j] = "converting"
    /\ invoked' = [invoked EXCEPT ![j] = @ + 1]
    /\ \E res \in ConverterResults, written \in BOOLEAN :
          /\ result' = [result EXCEPT ![j] = res]
          /\ outfile' = [outfile EXCEPT ![j] = written]
    /\ hpc' = [hpc EXCEPT ![j] = "returned"]
    /\ UNCHANGED <<jobRec, CONVERSION_JOBS, hloc, observed, pvars, dvars>>
    /\ UNCHANGED nonServer

\* toolkit.document_converter.convert raises: the except branch records it
ConverterRaises(j) ==
    /\ hpc[j] = "converting"
    /\ invoked' = [invoked EXCEPT ![j] = @ + 1]
    /\ \E written \in BOOLEAN : outfile' = [outfile EXCEPT ![j] = written]
    /\ result' = [result EXCEPT ![j] = [NoResult EXCEPT !.kind = "raised"]]
    /\ _update_job(j, ExceptionUpdate)
    /\ hpc' = [hpc EXCEPT ![j] = "done"]
    /\ UNCHANGED <<CONVERSION_JOBS, hloc, observed, pvars, dvars>>
    /\ UNCHANGED nonServer

\* update made when the converter's result says it failed
ConverterFailedUpdate(res) ==
    [status |-> "failed", progress |-> 100, stage |-> "failed",
     message |-> IF res.message = None THEN "Document conversion failed" ELSE res.message,
     error |-> res.error, conversionId |-> "cid"]

\* after the call: result.get("success") decides between failed and finalizing
HandlerAfterConvert(j) ==
    /\ hpc[j] = "returned"
    /\ IF ~result[j].success
       THEN /\ _update_job(j, ConverterFailedUpdate(result[j]))
            /\ hpc' = [hpc EXCEPT ![j] = "done"]
       ELSE /\ _update_job(j, FinalizingUpdate)
            /\ hpc' = [hpc EXCEPT ![j] = "finalizing"]
    /\ UNCHANGED <<CONVERSION_JOBS, hloc, result, invoked, outfile, observed,
                   pvars, dvars>>
    /\ UNCHANGED nonServer

\* variant for C4: the completing update carries the error of the result
CompletedUpdate_WithError ==
    [status |-> "completed", progress |-> 100, stage |-> "completed",
     message |-> "Conversion complete", conversionId |-> "cid",
     outputFile |-> "outputPath", outputFilename |-> "outputPath.name",
     error |-> "converter error"]

CompletedUpdate ==
    [status |-> "completed", progress |-> 100, stage |-> "completed",
     message |-> "Conversion complete", conversionId |-> "cid",
     outputFile |-> "outputPath", outputFilename |-> "outputPath.name"]

\* variant for C9: the converter's success is trusted without looking at the file
FinalUpdate_Trusting(exists) == CompletedUpdate

\* the update chosen after output_path.exists()
FinalUpdate(exists) ==
    IF ~exists THEN FailedUpdate("Converted file is missing") ELSE CompletedUpdate

\* output_path.exists() and the last update of the try block
HandlerFinalize(j) ==
    /\ hpc[j] = "finalizing"
    /\ observed' = [observed EXCEPT ![j] = IF outfile[j] THEN "present" ELSE "missing"]
    /\ _update_job(j, FinalUpdate(outfile[j]))
    /\ hpc' = [hpc EXCEPT ![j] = "done"]
    /\ UNCHANGED <<CONVERSION_JOBS, hloc, result, invoked, outfile, pvars, dvars>>
    /\ UNCHANGED nonServer

\* variant for C1: the except branch also runs after the handler's last update
HandlerRaises_AfterLastUpdate(j) ==
    /\ hpc[j] \in {"returned", "finalizing", "done"}
    /\ _update_job(j, ExceptionUpdate)
    /\ hpc' = [hpc EXCEPT ![j] = "done"]
    /\ UNCHANGED <<CONVERSION_JOBS, hloc, result, invoked, outfile, observed,
                   pvars, dvars>>
    /\ UNCHANGED nonServer

\* an exception raised by a statement after the converter's return (reading the
\* result, storing the debug entry, probing the output path): the except branch
HandlerRaises(j) ==
    /\ hpc[j] \in {"returned", "finalizing"}
    /\ _update_job(j, ExceptionUpdate)
    /\ hpc' = [hpc EXCEPT ![j] = "done"]
    /\ UNCHANGED <<CONVERSION_JOBS, hloc, result, invoked, outfile, observed,
                   pvars, dvars>>
    /\ UNCHANGED nonServer

(***************************************************************************)
(* get_document_conversion_status: _get_job hands out the dict itself, and *)
(* the response is built from it field by field outside the lock           *)
(***************************************************************************)
PollBegin(j) ==
    /\ ppc[j] = "idle"
    /\ j \in PolledJobs
    /\ j \in DOMAIN jobRec
    /\ IF _get_job(j)
       THEN /\ pread' = [pread EXCEPT ![j] = [status |-> jobRec[j].status, progress |-> 0]]
            /\ ppc' = [ppc EXCEPT ![j] = "progress"]
            /\ UNCHANGED resp
       ELSE /\ resp' = [resp EXCEPT ![j] = [code |-> 404, message |-> "Job not found"]]
            /\ UNCHANGED <<ppc, pread>>
    /\ UNCHANGED <<jobRec, CONVERSION_JOBS, hvars, dvars>>
    /\ UNCHANGED nonServer

PollProgress(j) ==
    /\ ppc[j] = "progress"
    /\ pread' = [pread EXCEPT ![j].progress = jobRec[j].progress]
    /\ ppc' = [ppc EXCEPT ![j] = "rest"]
    /\ UNCHANGED <<jobRec, CONVERSION_JOBS, hvars, resp, dvars>>
    /\ UNCHANGED nonServer

StatusResponse(read, job) ==
    [code |-> 200, jobId |-> job.jobId, status |-> read.status,
     progress |-> read.progress, stage |-> job.stage, message |-> job.message,
     outputFilename |-> job.outputFilename, conversionId |-> job.conversionId,
     error |-> job.error]

PollRespond(j) ==
    /\ ppc[j] = "rest"
    /\ resp' = [resp EXCEPT ![j] = StatusResponse(pread[j], jobRec[j])]
    /\ ppc' = [ppc EXCEPT ![j] = "idle"]
    /\ UNCHANGED <<jobRec, CONVERSION_JOBS, hvars, pread, dvars>>
    /\ UNCHANGED nonServer

(***************************************************************************)
(* download_document_conversion and its after-request cleanup              *)
(***************************************************************************)
\* variant for C14: any terminal job passes the status test
DownloadCode_AnyTerminal(j) ==
    IF ~_get_job(j) THEN 404
    ELSE IF jobRec[j].status \notin {"completed", "failed"} THEN 409
    ELSE IF jobRec[j].outputFile = None THEN 404
    ELSE IF ~outfile[j] THEN 404
    ELSE 200

DownloadCode(j) ==
    IF ~_get_job(j) THEN 404
    ELSE IF jobRec[j].status # "completed" THEN 409
    ELSE IF jobRec[j].outputFile = None THEN 404
    ELSE IF ~outfile[j] THEN 404
    ELSE 200

DownloadRequest(j, c) ==
    /\ dpc[j][c] = "idle"
    /\ j \in DOMAIN jobRec
    /\ dresp' = [dresp EXCEPT ![j][c] = DownloadCode(j)]
    /\ dpc' = [dpc EXCEPT ![j][c] = IF DownloadCode(j) = 200 THEN "cleanup" ELSE "idle"]
    /\ UNCHANGED <<jobRec, CONVERSION_JOBS, hvars, pvars, popCalls>>
    /\ UNCHANGED nonServer

\* cleanup: unlink every item of tempDir, rmdir
CleanupFiles(j, c) ==
    /\ dpc[j][c] = "cleanup"
    /\ outfile' = [outfile EXCEPT ![j] = FALSE]
    /\ dpc' = [dpc EXCEPT ![j][c] = "pop"]
    /\ UNCHANGED <<jobRec, CONVERSION_JOBS, hpc, hloc, result, invoked, observed,
                   pvars, dresp, popCalls>>
    /\ UNCHANGED nonServer

\* cleanup: _pop_job(job_id)
CleanupPop(j, c) ==
    /\ dpc[j][c] = "pop"
    /\ _pop_job(j)
    /\ dpc' = [dpc EXCEPT ![j][c] = "idle"]
    /\ popCalls' = [popCalls EXCEPT ![j] = @ + 1]
    /\ UNCHANGED <<jobRec, hvars, pvars, dresp>>
    /\ UNCHANGED nonServer

(***************************************************************************)
(* BatchProcessor: a deque, a dict of jobs in progress and worker threads  *)
(* that share one Condition; every block under `with self._cv` is one step *)
(***************************************************************************)
Max(a, b) == IF a >= b THEN a ELSE b

\* int(worker_count or 1): a missing or zero argument counts as 1
OrOne(arg) == IF arg = <<>> \/ arg = <<0>> THEN 1 ELSE arg[1]

\* max(1, int(worker_count or 1))
ClampWorkerCount(arg) == Max(1, OrOne(arg))

\* __init__
Construct(arg) ==
    /\ worker_count = 0
    /\ worker_count' = ClampWorkerCount(arg)
    /\ _queue' = <<>>
    /\ _in_progress' = {}
    /\ _threads' = 0
    /\ _running' = FALSE
    /\ UNCHANGED <<wpc, wjob, startCalls, submitLog, dequeueLog, beginLog, drained>>
    /\ UNCHANGED nonPool

\* the threads start() creates: the next worker_count thread ids
NewThreads == (_threads + 1)..(_threads + worker_count)

\* start
start ==
    /\ worker_count > 0
    /\ startCalls < MaxStarts
    /\ startCalls' = startCalls + 1
    /\ IF _running
       THEN UNCHANGED <<_running, _threads, wpc>>
       ELSE /\ _threads + worker_count <= MaxThreads
            /\ _running' = TRUE
            /\ _threads' = _threads + worker_count
            /\ wpc' = [t \in ThreadIds |-> IF t \in NewThreads THEN "check" ELSE wpc[t]]
    /\ UNCHANGED <<worker_count, _queue, _in_progress, wjob, submitLog,
                   dequeueLog, beginLog, drained>>
    /\ UNCHANGED nonPool

\* the workers blocked in self._cv.wait()
Waiters == {t \in ThreadIds : wpc[t] = "wait"}

\* stop: clear the flag and notify_all
stop ==
    /\ worker_count > 0
    /\ _running' = FALSE
    /\ wpc' = [t \in ThreadIds |-> IF t \in Waiters THEN "check" ELSE wpc[t]]
    /\ UNCHANGED <<worker_count, _queue, _in_progress, _threads, wjob,
                   startCalls, submitLog, dequeueLog, beginLog, drained>>
    /\ UNCHANGED nonPool

\* variant for C25: the notification of submit reaches no worker
Notify_Lost == UNCHANGED wpc

\* self._cv.notify(): one of the waiting workers, if any, is woken
Notify ==
    IF Waiters = {}
    THEN UNCHANGED wpc
    ELSE \E t \in Waiters : wpc' = [wpc EXCEPT ![t] = "check"]

\* submit: append and notify; a caller passes an id it has passed before or
\* the next new one
submit(job_id) ==
    /\ worker_count > 0
    /\ Len(submitLog) < MaxSubmits
    /\ job_id <= Cardinality({submitLog[i] : i \in DOMAIN submitLog}) + 1
    /\ _queue' = Append(_queue, job_id)
    /\ submitLog' = Append(submitLog, job_id)
    /\ Notify
    /\ UNCHANGED <<worker_count, _in_progress, _threads, _running, wjob,
                   startCalls, dequeueLog, beginLog, drained>>
    /\ UNCHANGED nonPool

RECURSIVE IndexFrom(_, _, _)
\* the enumerate loop of get_position, from position i on
IndexFrom(i, q, job_id) ==
    IF i > Len(q) THEN 0
    ELSE IF q[i] = job_id THEN i
    ELSE IndexFrom(i + 1, q, job_id)

\* variant for C12: the position counts from zero
get_position_ZeroBased(job_id) ==
    IF \E i \in 1..Len(_queue) : _queue[i] = job_id
    THEN <<IndexFrom(1, _queue, job_id) - 1>> ELSE <<>>

\* get_position: <<index>> of the first entry with the id, or <<>> for None
get_position(job_id) ==
    IF IndexFrom(1, _queue, job_id) = 0 THEN <<>>
    ELSE <<IndexFrom(1, _queue, job_id)>>

\* in_progress_count
in_progress_count == Cardinality(_in_progress)

\* snapshot
snapshot ==
    [workers |-> worker_count, queued |-> Len(_queue), running |-> Cardinality(_in_progress)]

\* self._queue.popleft()
TakeFrom(q) == [job |-> Head(q), rest |-> Tail(q)]

\* variant for C13: a stopped worker leaves whatever is queued
ShouldExit_LeavesQueue == ~_running

\* `if not self._running and not self._queue: return`
ShouldExit == ~_running /\ _queue = <<>>

\* _worker_loop, the block under the lock: wait, return, or take the next job
\* and mark it in progress
WorkerTake(t) ==
    /\ wpc[t] = "check"
    /\ IF _running /\ _queue = <<>>
       THEN /\ wpc' = [wpc EXCEPT ![t] = "wait"]
            /\ UNCHANGED <<_queue, _in_progress, wjob, dequeueLog, drained>>
       ELSE IF ShouldExit
       THEN /\ wpc' = [wpc EXCEPT ![t] = "exit"]
            /\ UNCHANGED <<_queue, _in_progress, wjob, dequeueLog, drained>>
       ELSE /\ _queue' = TakeFrom(_queue).rest
            /\ wjob' = [wjob EXCEPT ![t] = TakeFrom(_queue).job]
            /\ _in_progress' = _in_progress \cup {TakeFrom(_queue).job}
            /\ dequeueLog' = Append(dequeueLog, TakeFrom(_queue).job)
            /\ drained' = IF _running THEN drained
                          ELSE drained \cup {TakeFrom(_queue).job}
            /\ wpc' = [wpc EXCEPT ![t] = "dequeued"]
    /\ UNCHANGED <<worker_count, _threads, _running, startCalls, submitLog,
                   beginLog>>
    /\ UNCHANGED nonPool

\* self.job_handler(queued.job_id) is entered
PoolHandlerBegins(t) ==
    /\ wpc[t] = "dequeued"
    /\ wpc' = [wpc EXCEPT ![t] = "run"]
    /\ beginLog' = Append(beginLog, wjob[t])
    /\ UNCHANGED <<worker_count, _queue, _in_progress, _threads, _running, wjob,
                   startCalls, submitLog, dequeueLog, drained>>
    /\ UNCHANGED nonPool

\* the handler returns
PoolHandlerReturns(t) ==
    /\ wpc[t] = "run"
    /\ wpc' = [wpc EXCEPT ![t] = "returned"]
    /\ UNCHANGED <<worker_count, _queue, _in_progress, _threads, _running, wjob,
                   startCalls, submitLog, dequeueLog, beginLog, drained>>
    /\ UNCHANGED nonPool

\* the handler raises
PoolHandlerRaises(t) ==
    /\ wpc[t] = "run"
    /\ wpc' = [wpc EXCEPT ![t] = "raised"]
    /\ UNCHANGED <<worker_count, _queue, _in_progress, _threads, _running, wjob,
                   startCalls, submitLog, dequeueLog, beginLog, drained>>
    /\ UNCHANGED nonPool

\* variant for C22: the marker is removed only after a handler that returned
WorkerFinally_OnlyAfterReturn(t) ==
    /\ wpc[t] \in {"returned", "raised"}
    /\ _in_progress' = IF wpc[t] = "returned" THEN _in_progress \ {wjob[t]}
                       ELSE _in_progress
    /\ wpc' = [wpc EXCEPT ![t] = IF wpc[t] = "returned" THEN "check" ELSE "dead"]
    /\ UNCHANGED <<worker_count, _queue, _threads, _running, wjob,
                   startCalls, submitLog, dequeueLog, beginLog, drained>>
    /\ UNCHANGED nonPool

\* the finally block: the job leaves _in_progress; after a return the loop goes
\* round, after an exception nothing catches it and the thread ends
WorkerFinally(t) ==
    /\ wpc[t] \in {"returned", "raised"}
    /\ _in_progress' = _in_progress \ {wjob[t]}
    /\ wpc' = [wpc EXCEPT ![t] = IF wpc[t] = "returned" THEN "check" ELSE "dead"]
    /\ UNCHANGED <<worker_count, _queue, _threads, _running, wjob,
                   startCalls, submitLog, dequeueLog, beginLog, drained>>
    /\ UNCHANGED nonPool

(***************************************************************************)
(* ArchiveConverter: parsing of the chain, detection of archive formats    *)
(***************************************************************************)
ARCHIVE_FORMATS ==
    <<".tar.gz", ".tar.bz2", ".tar.xz", ".tgz", ".tbz2", ".txz", ".tar", ".zip",
      ".gz", ".bz2", ".xz", ".7z">>

\* the pieces of a format when it is part of a file name
ChunksOf(fmt) ==
    IF fmt = ".tar.gz" THEN <<".tar", ".gz">>
    ELSE IF fmt = ".tar.bz2" THEN <<".tar", ".bz2">>
    ELSE IF fmt = ".tar.xz" THEN <<".tar", ".xz">>
    ELSE <<fmt>>

\* fmt.startswith(".")
StartsWithDot(str) == str # <<>> /\ Head(str) \in DottedChunks

\* variant for C17: a part that is no archive format is passed on
_normalize_output_format_Lenient(output_format) ==
    LET fmt == Strip(LowerStr(output_format))
        dotted == IF StartsWithDot(fmt) THEN Flat(fmt) ELSE "." \o Flat(fmt)
    IN  [ok |-> fmt # <<>>, fmt |-> dotted]

\* _normalize_output_format; ok is FALSE where the code raises
_normalize_output_format(output_format) ==
    LET fmt == Strip(LowerStr(output_format))
        dotted == IF StartsWithDot(fmt) THEN Flat(fmt) ELSE "." \o Flat(fmt)
    IN  IF fmt = <<>> THEN [ok |-> FALSE, fmt |-> ""]
        ELSE [ok |-> InList(dotted, ARCHIVE_FORMATS), fmt |-> dotted]

RECURSIVE SplitFrom(_, _, _, _)
\* re.split(r"\s*(?:->|=>|>|,|\|)\s*", raw): the parts between the separators;
\* a "-" or "=" right before ">" belongs to the separator
SplitFrom(i, raw, cur, acc) ==
    IF i > Len(raw) THEN Append(acc, cur)
    ELSE IF raw[i] \in {",", "|"} THEN SplitFrom(i + 1, raw, <<>>, Append(acc, cur))
    ELSE IF raw[i] = ">"
    THEN IF cur # <<>> /\ cur[Len(cur)] \in {"-", "="}
         THEN SplitFrom(i + 1, raw, <<>>, Append(acc, SubSeq(cur, 1, Len(cur) - 1)))
         ELSE SplitFrom(i + 1, raw, <<>>, Append(acc, cur))
    ELSE SplitFrom(i + 1, raw, Append(cur, raw[i]), acc)

\* [part.strip() for part in ... if part.strip()]
Parts(raw) ==
    LET split == SplitFrom(1, raw, <<>>, <<>>)
        stripped == [i \in DOMAIN split |-> Strip(split[i])]
    IN  SelectSeq(stripped, LAMBDA part : part # <<>>)

\* _parse_output_chain; ok is FALSE where the code raises UnsupportedFormatError
_parse_output_chain(output_format) ==
    LET raw == LowerStr(Strip(output_format))
        parts == Parts(raw)
        normalized == [i \in DOMAIN parts |-> _normalize_output_format(parts[i])]
    IN  IF raw = <<>> \/ parts = <<>> THEN [ok |-> FALSE, chain |-> <<>>]
        ELSE IF \E i \in DOMAIN normalized : ~normalized[i].ok
        THEN [ok |-> FALSE, chain |-> <<>>]
        ELSE [ok |-> TRUE, chain |-> [i \in DOMAIN normalized |-> normalized[i].fmt]]

\* name.endswith(fmt), for a fmt that begins with a dot
EndsWith(name, fmt) ==
    \E k \in 1..Len(name) :
        name[k] \in DottedChunks /\ Flat(SubSeq(name, k, Len(name))) = fmt

RECURSIVE LongestFirstFrom(_, _)
\* sorted(formats, key=len, reverse=True): longest first, equal lengths in the
\* order of the list
LongestFirstFrom(formats, n) ==
    IF n = 0 THEN <<>>
    ELSE SelectSeq(formats, LAMBDA f : Len(f) = n) \o LongestFirstFrom(formats, n - 1)

\* variant for C27: the formats are tried from the end of the list
LongestFirst_Reversed(formats) ==
    [i \in DOMAIN formats |-> formats[Len(formats) + 1 - i]]

LongestFirst(formats) ==
    LongestFirstFrom(formats,
        CHOOSE n \in {Len(formats[i]) : i \in DOMAIN formats} :
            \A i \in DOMAIN formats : Len(formats[i]) <= n)

RECURSIVE FirstMatch(_, _, _)
\* the first format of the list the name ends with, or default
FirstMatch(name, formats, default) ==
    IF formats = <<>> THEN default
    ELSE IF EndsWith(name, Head(formats)) THEN Head(formats)
    ELSE FirstMatch(name, Tail(formats), default)

\* _detect_archive_format
_detect_archive_format(name) ==
    FirstMatch(LowerStr(name), LongestFirst(ARCHIVE_FORMATS), None)

\* Path.suffix, Path.stem, Path.with_suffix
Suffix(name) ==
    IF Len(name) > 1 /\ name[Len(name)] \in DottedChunks THEN name[Len(name)] ELSE ""
Stem(name) == IF Suffix(name) = "" THEN name ELSE SubSeq(name, 1, Len(name) - 1)
WithSuffix(name, suffix) == Stem(name) \o <<suffix>>

\* _base_stem
_base_stem(name) ==
    LET fmt == _detect_archive_format(name)
        cut == SubSeq(name, 1, Len(name) - Len(ChunksOf(fmt)))
    IN  IF fmt = None THEN Stem(name)
        ELSE IF cut # <<>> THEN cut ELSE Stem(name)

(***************************************************************************)
(* The compressors                                                         *)
(***************************************************************************)
RECURSIVE HasFile(_)
\* whether rglob finds a file in the node
HasFile(node) ==
    IF node.kind = "file" THEN TRUE
    ELSE \E e \in node.items : HasFile(e.node)

RECURSIVE FilesOnly(_)
\* a folder as ZipCompressor stores it: the files with their relative paths,
\* so folders that hold no file are left out
FilesOnly(node) ==
    IF node.kind = "file" THEN node
    ELSE Folder({Entry(e.name, FilesOnly(e.node)) : e \in {x \in node.items : HasFile(x.node)}})

Failure(msg) == [success |-> FALSE, message |-> msg, path |-> NoPath, node |-> RawFile("")]
Written(path, node) == [success |-> TRUE, message |-> "ok", path |-> path, node |-> node]

\* ZipCompressor.compress
ZipCompress(source, output_path) ==
    LET path == IF LowerChunk(Suffix(output_path[2])) # ".zip"
                THEN <<output_path[1], WithSuffix(output_path[2], ".zip")>>
                ELSE output_path
    IN  Written(path, ArchiveFile("zip",
            IF HasFile(source.node) THEN {Entry(source.name, FilesOnly(source.node))} ELSE {}))

\* TarCompressor._WRITE_MODES and _detect_tar_suffix
TarSuffixes == <<".tar", ".tar.gz", ".tgz", ".tar.bz2", ".tbz2", ".tar.xz", ".txz">>
TarEncoding(suffix) ==
    IF suffix \in {".tar.gz", ".tgz"} THEN "tar.gz"
    ELSE IF suffix \in {".tar.bz2", ".tbz2"} THEN "tar.bz2"
    ELSE IF suffix \in {".tar.xz", ".txz"} THEN "tar.xz"
    ELSE "tar"
_detect_tar_suffix(name) == FirstMatch(LowerStr(name), LongestFirst(TarSuffixes), ".tar")

\* TarCompressor.compress
TarCompress(source, output_path) ==
    Written(output_path,
            ArchiveFile(TarEncoding(_detect_tar_suffix(output_path[2])), {source}))

\* Bz2Compressor.compress and XzCompressor.compress: one file, and the suffix
\* is appended to an output name that lacks it
StreamCompress(source, output_path, suffix, enc) ==
    IF source.node.kind # "file" THEN Failure("Input file not found")
    ELSE LET path == IF LowerChunk(Suffix(output_path[2])) # suffix
                     THEN <<output_path[1], output_path[2] \o <<suffix>>>>
                     ELSE output_path
         IN  Written(path, ArchiveFile(enc, {Entry(<<>>, source.node)}))

\* GzCompressor.compress: as the other two single-file compressors
GzCompress(source, output_path) == StreamCompress(source, output_path, ".gz", "gz")

\* SevenZCompressor.compress: needs the 7z binary
SevenZCompress(source, output_path, installed) ==
    LET path == IF LowerChunk(Suffix(output_path[2])) # ".7z"
                THEN <<output_path[1], WithSuffix(output_path[2], ".7z")>>
                ELSE output_path
    IN  IF ~installed THEN Failure("7z compression failed")
        ELSE Written(path, ArchiveFile("7z", {source}))

\* _compress_to_format
_compress_to_format(source, target_format, output_file, installed) ==
    IF target_format = ".zip" THEN ZipCompress(source, output_file)
    ELSE IF InList(target_format, TarSuffixes) THEN TarCompress(source, output_file)
    ELSE IF target_format \in {".gz", ".bz2", ".xz"}
    THEN IF source.node.kind = "dir" THEN Failure("supports single files only")
         ELSE IF target_format = ".gz" THEN GzCompress(source, output_file)
         ELSE IF target_format = ".bz2"
         THEN StreamCompress(source, output_file, ".bz2", "bz2")
         ELSE StreamCompress(source, output_file, ".xz", "xz")
    ELSE IF target_format = ".7z" THEN SevenZCompress(source, output_file, installed)
    ELSE Failure("Unsupported target archive format")

Extracted(entries) == [success |-> TRUE, message |-> "ok", children |-> entries]
NotExtracted(msg) == [success |-> FALSE, message |-> msg, children |-> {}]

\* _extract_archive into a fresh folder: the entries that appear in it
_extract_archive(name, node, installed) ==
    LET fmt == _detect_archive_format(name)
    IN  IF fmt = None THEN NotExtracted("Input is not a recognized archive")
        ELSE IF fmt = ".zip"
        THEN IF node.enc = "zip" THEN Extracted(node.items)
             ELSE NotExtracted("ZIP extraction failed")
        ELSE IF InList(fmt, TarSuffixes)
        THEN IF node.enc \in {"tar", "tar.gz", "tar.bz2", "tar.xz"}
             THEN Extracted(node.items)
             ELSE NotExtracted("TAR extraction failed")
        ELSE IF fmt \in {".gz", ".bz2", ".xz"}
        THEN IF "." \o node.enc = fmt
             THEN Extracted({Entry(_base_stem(name), e.node) : e \in node.items})
             ELSE IF ".tar" \o fmt = "." \o node.enc
             THEN Extracted({Entry(_base_stem(name), ArchiveFile("tar", node.items))})
             ELSE NotExtracted("extraction failed")
        ELSE IF node.enc = "7z" /\ installed THEN Extracted(node.items)
        ELSE NotExtracted("7z extraction failed")

(***************************************************************************)
(* ArchiveConverter.convert                                                *)
(***************************************************************************)
ChainPath(name) == <<"chain", name>>

\* the with-block of the chain ends: its folder goes with what is in it
WithoutChainFiles(files) ==
    [path \in {q \in DOMAIN files : q[1] # "chain"} |-> files[path]]

StepName(n) == IF n = 1 THEN "step_1" ELSE IF n = 2 THEN "step_2" ELSE "step_n"

\* variant for C26: every step is given the final output path
StepOutput_AlwaysFinal(i) == final_output_path

\* step_output of the step with the given index
StepOutput(i) ==
    IF i = Len(target_chain) - 1 THEN final_output_path
    ELSE ChainPath(<<StepName(i + 1)>> \o ChunksOf(target_chain[i + 1]))

\* source_format or input_path.suffix.lower() or "(folder)"
FormatFrom(name, fmt) ==
    IF fmt # None THEN fmt
    ELSE IF Suffix(name) # "" THEN LowerChunk(Suffix(name))
    ELSE "(folder)"

\* convert, up to the loop: the input must exist, the chain must parse, the
\* final output path is the caller's or is derived from the input
ConvertCall(input_file, output_format, output_file, installed) ==
    /\ cpc = "idle"
    /\ call' = [input_file |-> input_file, output_format |-> output_format,
                output_file |-> output_file, seven_z |-> installed]
    /\ LET parsed == _parse_output_chain(output_format)
       IN  IF input_file \notin DOMAIN fs
           THEN /\ cresult' = [NoChainResult EXCEPT !.kind = "returned",
                                  !.message = "Input not found",
                                  !.keys = {"success", "message", "input_file"}]
                /\ cpc' = "done"
                /\ UNCHANGED <<tempDirs, target_chain, final_output_path, current_input>>
           ELSE IF ~parsed.ok
           THEN /\ cresult' = [NoChainResult EXCEPT !.kind = "raised",
                                  !.message = "UnsupportedFormatError"]
                /\ cpc' = "done"
                /\ UNCHANGED <<tempDirs, target_chain, final_output_path, current_input>>
           ELSE /\ target_chain' = parsed.chain
                /\ final_output_path' =
                      IF output_file # <<>> THEN output_file[1]
                      ELSE <<input_file[1],
                             _base_stem(input_file[2])
                                 \o ChunksOf(parsed.chain[Len(parsed.chain)])>>
                /\ current_input' = input_file
                /\ tempDirs' = {"archive_chain_"}
                /\ cpc' = "step"
                /\ UNCHANGED cresult
    /\ UNCHANGED <<fs, index, steps, source_payload, source_format, writtenPaths>>
    /\ UNCHANGED nonChain

\* {**step_result, "chain": target_chain, "failed_step": index + 1}
StepFailure(msg) ==
    [kind |-> "returned", success |-> FALSE, message |-> msg, failed_step |-> index + 1,
     keys |-> {"success", "input_file", "format_from", "format_to", "message", "error",
               "chain", "failed_step"},
     steps |-> <<>>, chain |-> target_chain, output_file |-> NoPath]

\* the result of a chain that ran through
ChainSuccess(audit) ==
    [kind |-> "returned", success |-> TRUE, message |-> "Archive conversion completed",
     failed_step |-> 0,
     keys |-> {"success", "input_file", "output_file", "format_from", "format_to",
               "original_size", "new_size", "chain", "steps", "message"},
     steps |-> audit, chain |-> target_chain, output_file |-> final_output_path]

\* variant for C20: the extraction folder is always the payload
Payload_AlwaysFolder(children) == Entry(<<"extracted">>, Folder(children))

\* children[0] if len(children) == 1 else extracted_dir
Payload(children) ==
    IF Cardinality(children) = 1 THEN CHOOSE e \in children : TRUE
    ELSE Entry(<<"extracted">>, Folder(children))

\* _convert_single, first half: an input that is an archive is extracted into
\* a temporary directory; a failed extraction ends the chain
StepExtract ==
    /\ cpc = "step"
    /\ current_input \in DOMAIN fs
    /\ LET name == current_input[2]
           fmt == _detect_archive_format(name)
           extract_result == _extract_archive(name, fs[current_input], call.seven_z)
       IN  /\ source_format' = fmt
           /\ IF fmt = None
              THEN /\ source_payload' = Entry(name, fs[current_input])
                   /\ cpc' = "compress"
                   /\ UNCHANGED <<fs, tempDirs, cresult>>
              ELSE IF ~extract_result.success
              THEN /\ cresult' = StepFailure(extract_result.message)
                   /\ fs' = WithoutChainFiles(fs)
                   /\ tempDirs' = {}
                   /\ cpc' = "done"
                   /\ UNCHANGED source_payload
              ELSE /\ source_payload' = Payload(extract_result.children)
                   /\ tempDirs' = tempDirs \cup {"archive_convert_"}
                   /\ cpc' = "compress"
                   /\ UNCHANGED <<fs, cresult>>
    /\ UNCHANGED <<call, target_chain, final_output_path, index, current_input, steps,
                   writtenPaths>>
    /\ UNCHANGED nonChain

\* _convert_single up to the detection of the source format, for a path of
\* any name
DetectFormat(name) ==
    /\ cpc = "idle"
    /\ current_input' = InPath(name)
    /\ source_format' = _detect_archive_format(name)
    /\ cpc' = "detected"
    /\ UNCHANGED <<fs, tempDirs, call, target_chain, final_output_path, index, steps,
                   source_payload, cresult, writtenPaths>>
    /\ UNCHANGED nonChain

\* _convert_single, second half, and the rest of the loop body: the payload is
\* compressed to the step's output; a failure ends the chain, the last step
\* ends it with the result, any other step hands its output to the next
StepCompress ==
    /\ cpc = "compress"
    /\ LET target_format == target_chain[index + 1]
           step_output == StepOutput(index)
           compress_result == _compress_to_format(source_payload, target_format,
                                                  step_output, call.seven_z)
           files == (compress_result.path :> compress_result.node) @@ fs
           audit == Append(steps,
                       [step |-> index + 1,
                        from |-> FormatFrom(current_input[2], source_format),
                        to |-> target_format,
                        output_file |-> step_output])
       IN  IF ~compress_result.success
           THEN /\ cresult' = StepFailure(compress_result.message)
                /\ fs' = WithoutChainFiles(fs)
                /\ tempDirs' = {}
                /\ cpc' = "done"
                /\ UNCHANGED <<index, current_input, steps, writtenPaths>>
           ELSE /\ writtenPaths' = writtenPaths \cup {compress_result.path}
                /\ steps' = audit
                /\ current_input' = step_output
                /\ IF index = Len(target_chain) - 1
                   THEN /\ fs' = WithoutChainFiles(files)
                        /\ tempDirs' = {}
                        /\ cresult' = ChainSuccess(audit)
                        /\ cpc' = "done"
                        /\ UNCHANGED index
                   ELSE /\ fs' = files
                        /\ tempDirs' = {"archive_chain_"}
                        /\ index' = index + 1
                        /\ cpc' = "step"
                        /\ UNCHANGED cresult
    /\ UNCHANGED <<call, target_chain, final_output_path, source_payload, source_format>>
    /\ UNCHANGED nonChain

(***************************************************************************)
(* convert_document: the same request served in one call                   *)
(***************************************************************************)
\* variant for C29: the endpoint does not compare declared and detected type
ConvertDocumentChecks_NoMismatchCheck(r) ==
    LET detected_type == _detect_document_type(Lower(r.suffix))
        selected_type == r.documentType
        effective_type == IF selected_type = "auto" THEN detected_type ELSE selected_type
    IN  IF detected_type = None THEN MsgUnsupportedSource
        ELSE IF selected_type # "auto" /\ selected_type \notin DOMAIN OUTPUT_PROFILE_FORMATS
             THEN MsgUnsupportedType
        ELSE IF r.outputProfile \notin {"legacy", "modern"} THEN MsgUnsupportedProfile
        ELSE IF ~InList(r.outputFormat, _get_output_formats_for(effective_type, r.outputProfile))
             THEN MsgOutputNotAllowed
        ELSE MsgOk

\* the checks of convert_document between source.save and the converter
\* call, in code order; each failure is a 400 response with its message
ConvertDocumentChecks(r) ==
    LET detected_type == _detect_document_type(Lower(r.suffix))
        selected_type == r.documentType
        output_profile == r.outputProfile
        effective_type == IF selected_type = "auto" THEN detected_type ELSE selected_type
        allowed_outputs == _get_output_formats_for(effective_type, output_profile)
    IN  IF detected_type = None THEN MsgUnsupportedSource
        ELSE IF selected_type # "auto" /\ selected_type \notin DOMAIN OUTPUT_PROFILE_FORMATS
             THEN MsgUnsupportedType
        ELSE IF output_profile \notin {"legacy", "modern"} THEN MsgUnsupportedProfile
        ELSE IF selected_type # "auto" /\ selected_type # detected_type THEN MsgTypeMismatch
        ELSE IF ~InList(r.outputFormat, allowed_outputs) THEN MsgOutputNotAllowed
        ELSE MsgOk

\* convert_document: a request that fails a check is answered 400 before the
\* converter is called; otherwise the converter runs and its result decides
convert_document(r) ==
    /\ sync.pc = "idle"
    /\ LET verdict == ConvertDocumentChecks(r)
       IN  IF verdict # MsgOk
           THEN sync' = [pc |-> "done", request |-> r, code |-> 400,
                         message |-> verdict, invoked |-> FALSE]
           ELSE \E res \in ConverterResults :
                   sync' = [pc |-> "done", request |-> r,
                            code |-> IF res.success THEN 200 ELSE 400,
                            message |-> res.message, invoked |-> TRUE]
    /\ UNCHANGED nonSync

(***************************************************************************)
(* FileUtils.merge_files                                                   *)
(***************************************************************************)
\* ord() of the characters of the part names
Ord(c) ==
    CASE c = "." -> 46 [] c = "/" -> 47 [] c = "0" -> 48 [] c = "1" -> 49
      [] c = "a" -> 97 [] c = "o" -> 111

RECURSIVE StrLess(_, _)
\* str.__lt__: character by character, a proper prefix is smaller
StrLess(x, y) ==
    IF y = <<>> THEN FALSE
    ELSE IF x = <<>> THEN TRUE
    ELSE IF Head(x) # Head(y) THEN Ord(Head(x)) < Ord(Head(y))
    ELSE StrLess(Tail(x), Tail(y))

RECURSIVE PathParts(_, _, _)
\* Path(text).parts: the components between the slashes
PathParts(text, cur, acc) ==
    IF text = <<>> THEN (IF cur = <<>> THEN acc ELSE Append(acc, cur))
    ELSE IF Head(text) = "/"
    THEN PathParts(Tail(text), <<>>, IF cur = <<>> THEN acc ELSE Append(acc, cur))
    ELSE PathParts(Tail(text), Append(cur, Head(text)), acc)

RECURSIVE PartsLess(_, _)
\* comparison of two lists of components, as Python compares lists of str
PartsLess(x, y) ==
    IF y = <<>> THEN FALSE
    ELSE IF x = <<>> THEN TRUE
    ELSE IF Head(x) # Head(y) THEN StrLess(Head(x), Head(y))
    ELSE PartsLess(Tail(x), Tail(y))

\* PurePath.__lt__
PathLess(x, y) == PartsLess(PathParts(x, <<>>, <<>>), PathParts(y, <<>>, <<>>))

\* part < other; the list holds one type here
PartLess(part, other) ==
    IF part.type = "str" THEN StrLess(part.text, other.text)
    ELSE PathLess(part.text, other.text)

RECURSIVE InsertSorted(_, _)
\* the place of a part in a sorted list: behind what is not greater (stable)
InsertSorted(part, list) ==
    IF list = <<>> THEN <<part>>
    ELSE IF PartLess(part, Head(list)) THEN <<part>> \o list
    ELSE <<Head(list)>> \o InsertSorted(part, Tail(list))

\* sorted(file_parts) raises TypeError when it compares a str with a Path,
\* which it does as soon as the list holds both
SortRaises(file_parts) ==
    \E i, j \in DOMAIN file_parts : file_parts[i].type # file_parts[j].type

RECURSIVE sorted(_)
\* sorted(file_parts), of a list of one type
sorted(file_parts) ==
    IF file_parts = <<>> THEN <<>>
    ELSE InsertSorted(file_parts[Len(file_parts)],
                      sorted(SubSeq(file_parts, 1, Len(file_parts) - 1)))

RECURSIVE Concatenation(_, _)
\* what the loop has written after the parts of the list
Concatenation(list, files) ==
    IF list = <<>> THEN <<>>
    ELSE files[Head(list).text] \o Concatenation(Tail(list), files)

\* merge_files: the output is opened for writing before the parts are sorted
merge_files(file_parts, output_file) ==
    /\ ~mcall.called
    /\ mcall' = [file_parts |-> file_parts, output_file |-> output_file, called |-> TRUE]
    /\ IF SortRaises(file_parts)
       THEN /\ mfiles' = [text \in DOMAIN mfiles \cup {output_file} |->
                            IF text = output_file THEN <<>> ELSE mfiles[text]]
            /\ mresult' = [kind |-> "raised", value |-> <<"TypeError">>]
       ELSE /\ mfiles' = [text \in DOMAIN mfiles \cup {output_file} |->
                            IF text = output_file
                            THEN Concatenation(sorted(file_parts), mfiles)
                            ELSE mfiles[text]]
            /\ mresult' = [kind |-> "returned", value |-> output_file]
    /\ UNCHANGED nonMerge

(***************************************************************************)
(* Specifications                                                          *)
(***************************************************************************)
Handler(j) ==
    \/ HandlerEnter(j)
    \/ HandlerRunning(j)
    \/ HandlerChecks(j)
    \/ ConverterReturns(j)
    \/ ConverterRaises(j)
    \/ HandlerAfterConvert(j)
    \/ HandlerFinalize(j)
    \/ HandlerRaises(j)

Poll(j) ==
    \/ PollBegin(j)
    \/ PollProgress(j)
    \/ PollRespond(j)

Download(j, c) ==
    \/ DownloadRequest(j, c)
    \/ CleanupFiles(j, c)
    \/ CleanupPop(j, c)

\* several jobs side by side; the registry is watched directly
Next ==
    \/ \E j \in JobIds, r \in Requests : StartJob(j, r)
    \/ \E j \in JobIds : Handler(j)
    \/ \E j \in JobIds : Download(j, 1)

Spec == Init /\ [][Next]_vars

\* two jobs side by side, one of them with a client polling its status
NextPoll ==
    \/ \E j \in PollJobs, r \in Requests : StartJob(j, r)
    \/ \E j \in JobIds : Handler(j)
    \/ \E j \in JobIds : Poll(j)
    \/ \E j \in JobIds : Download(j, 1)

SpecPoll == Init /\ [][NextPoll]_vars

\* one job, every combination of suffix, type, profile and output format; the
\* registry is watched directly
NextWide ==
    \/ \E r \in AllRequests : StartJob(1, r)
    \/ \E j \in JobIds : Handler(j)
    \/ \E j \in JobIds : Download(j, 1)

SpecWide == Init /\ [][NextWide]_vars

\* one job, a client polling its status and several clients downloading it
NextDownload ==
    \/ \E r \in Requests : StartJob(1, r)
    \/ Handler(1)
    \/ Poll(1)
    \/ \E c \in Clients : Download(1, c)

SpecDownload == Init /\ [][NextDownload]_vars

Worker(t) ==
    \/ WorkerTake(t)
    \/ PoolHandlerBegins(t)
    \/ PoolHandlerReturns(t)
    \/ PoolHandlerRaises(t)
    \/ WorkerFinally(t)

\* one pool, its callers and its worker threads; every job is submitted once
NextPool ==
    \/ \E arg \in WorkerCountArgs : Construct(arg)
    \/ start
    \/ stop
    \/ \E job_id \in PoolJobs : job_id = Len(submitLog) + 1 /\ submit(job_id)
    \/ \E t \in ThreadIds : Worker(t)

SpecPool == Init /\ [][NextPool]_vars

\* the same pool with callers that may submit an id again
NextPoolAny ==
    \/ \E arg \in WorkerCountArgs : Construct(arg)
    \/ start
    \/ stop
    \/ \E job_id \in PoolJobs : submit(job_id)
    \/ \E t \in ThreadIds : Worker(t)

SpecPoolAny == Init /\ [][NextPoolAny]_vars

\* a worker whose handlers return
WorkerReturning(t) ==
    \/ WorkerTake(t)
    \/ PoolHandlerBegins(t)
    \/ PoolHandlerReturns(t)
    \/ WorkerFinally(t)

\* a pool that is started and kept running, with handlers that return: every
\* worker thread that can take a step is scheduled in the end, and a handler
\* that runs returns in the end
NextPoolLive ==
    \/ \E arg \in WorkerCountArgs : Construct(arg)
    \/ start
    \/ \E job_id \in PoolJobs : job_id = Len(submitLog) + 1 /\ submit(job_id)
    \/ \E t \in ThreadIds : WorkerReturning(t)

SpecPoolLive ==
    Init /\ [][NextPoolLive]_vars /\ \A t \in ThreadIds : WF_vars(WorkerReturning(t))

\* one call of convert: every input, a few chains, every output_file, with and
\* without the 7z binary
NextChain ==
    \/ \E input_file \in ChainInputs, output_format \in ChainSpecs,
          output_file \in OutputFiles, installed \in BOOLEAN :
            ConvertCall(input_file, output_format, output_file, installed)
    \/ StepExtract
    \/ StepCompress

SpecChain == Init /\ [][NextChain]_vars

\* one call of convert on a plain file or a missing one, with every chain
\* specification of up to MaxSpecLen pieces
NextParse ==
    \/ /\ cpc = "idle"
       /\ \E input_file \in {InPath(<<"f", ".txt">>), InPath(<<"gone", ".txt">>)},
             output_format \in AllChainSpecs :
               ConvertCall(input_file, output_format, <<>>, TRUE)
    \/ StepExtract
    \/ StepCompress

SpecParse == Init /\ [][NextParse]_vars

\* the format detection applied to one file name
NextDetect == \E name \in DetectNames : DetectFormat(name)

SpecDetect == Init /\ [][NextDetect]_vars

\* one request given to both endpoints: to start_document_conversion, whose
\* job the handler thread runs, and to convert_document
NextSync ==
    \/ \E r \in AllRequests : StartJob(1, r)
    \/ Handler(1)
    \/ /\ 1 \in DOMAIN jobRec
       /\ convert_document(Req(jobRec[1].inputPath, jobRec[1].documentType,
                               jobRec[1].outputProfile, jobRec[1].outputFormat))

SpecSync == Init /\ [][NextSync]_vars

\* one call of merge_files on a list of existing parts
NextMerge ==
    /\ ~mcall.called
    /\ \E file_parts \in PartLists : merge_files(file_parts, <<"o">>)

SpecMerge == Init /\ [][NextMerge]_vars

(***************************************************************************)
(* Properties                                                              *)
(***************************************************************************)
Terminal == {"completed", "failed"}

Statuses == {"queued", "running", "completed", "failed"}

\* C1: once a status response reports completed or failed, every later status
\* response for that job reports the same status, and no step changes the
\* status of a registered job that is completed or failed.
C1_TerminalStatusIsFinal ==
    [][\A j \in JobIds :
          /\ (j \in CONVERSION_JOBS /\ j \in CONVERSION_JOBS'
              /\ jobRec[j].status \in Terminal)
                => jobRec'[j].status = jobRec[j].status
          /\ (resp[j].code = 200 /\ resp'[j].code = 200
              /\ resp[j].status \in Terminal)
                => resp'[j].status = resp[j].status]_vars

\* C1 witness: a second status call is under way after a response that reported
\* a terminal status, and it has read that same status
C1_Witness ==
    \E j \in JobIds :
        /\ resp[j].code = 200
        /\ resp[j].status \in Terminal
        /\ ppc[j] = "rest"
        /\ pread[j].status = resp[j].status

\* C2: the progress values of successive responses for a job (the 202 response
\* of the start, then each status response) never decrease.
C2_ProgressNeverDecreases ==
    [][\A j \in JobIds :
          (resp[j].code \in {200, 202} /\ resp'[j].code = 200)
              => resp'[j].progress >= resp[j].progress]_vars

\* C2 witness: the last response reported 60 and the call under way has read 90
C2_Witness ==
    \E j \in JobIds :
        /\ resp[j].code = 200
        /\ resp[j].progress = 60
        /\ ppc[j] = "rest"
        /\ pread[j].progress = 90

\* C3: a registered job has progress 100 exactly when its status is completed
\* or failed.
C3_ProgressHundredIffTerminal ==
    \A j \in CONVERSION_JOBS :
        (jobRec[j].progress = 100) <=> (jobRec[j].status \in Terminal)

\* C3 witness: one job is completed at 100 while another is running at 90
C3_Witness ==
    \E j, k \in CONVERSION_JOBS :
        /\ jobRec[j].status = "completed" /\ jobRec[j].progress = 100
        /\ jobRec[k].status = "running" /\ jobRec[k].progress = 90

\* the five validation failure messages
ValidationMessages ==
    {MsgUnsupportedSource, MsgUnsupportedType, MsgUnsupportedProfile,
     MsgTypeMismatch, MsgOutputNotAllowed}

\* C4 as stated: a terminal job has exactly one of outputFile and error set, a
\* completed job its outputFile and a failed job its error, on every failure path.
C4_ExactlyOneOfOutputFileAndError ==
    \A j \in CONVERSION_JOBS :
        /\ jobRec[j].status = "completed"
              => (jobRec[j].outputFile # None /\ jobRec[j].error = None)
        /\ jobRec[j].status = "failed"
              => (jobRec[j].error # None /\ jobRec[j].outputFile = None)

\* C4 amended: a completed job has outputFile set and error unset; a failed job
\* has outputFile unset and a failure message, and its error is set exactly
\* when the failure is an uncaught exception or a failure reported by the
\* converter with an error detail; the validation failures and the missing
\* output file leave error unset.
C4_AtMostOneOfOutputFileAndError ==
    \A j \in CONVERSION_JOBS :
        /\ jobRec[j].status = "completed"
              => (jobRec[j].outputFile # None /\ jobRec[j].error = None)
        /\ jobRec[j].status = "failed"
              => /\ jobRec[j].outputFile = None
                 /\ jobRec[j].message
                       \in ValidationMessages
                           \cup {"Converted file is missing", "Conversion failed: exception",
                                 "Document conversion failed", "converter message"}
                 /\ (jobRec[j].error # None) <=>
                       \/ jobRec[j].message = "Conversion failed: exception"
                       \/ /\ jobRec[j].message
                                \in {"Document conversion failed", "converter message"}
                          /\ result[j].error # None
                 /\ jobRec[j].message \in ValidationMessages \cup {"Converted file is missing"}
                       => jobRec[j].error = None

\* C4 witness: a job failed by the output allow-list check has neither error
\* nor outputFile
C4_Witness ==
    \E j \in CONVERSION_JOBS :
        /\ hpc[j] = "done"
        /\ jobRec[j].status = "failed" /\ jobRec[j].message = MsgOutputNotAllowed
        /\ jobRec[j].error = None /\ jobRec[j].outputFile = None

\* C5: a job is created queued, its status is always one of the four values,
\* and it changes only queued -> running, running -> completed, running -> failed.
C5_StatusTransitions ==
    [][\A j \in JobIds :
          /\ (j \notin DOMAIN jobRec /\ j \in DOMAIN jobRec')
                => jobRec'[j].status = "queued"
          /\ (j \in DOMAIN jobRec)
                => /\ jobRec'[j].status \in Statuses
                   /\ \/ jobRec'[j].status = jobRec[j].status
                      \/ <<jobRec[j].status, jobRec'[j].status>>
                            \in {<<"queued", "running">>, <<"running", "completed">>,
                                 <<"running", "failed">>}]_vars

\* C5 witness: one job went queued -> running -> completed, another
\* queued -> running -> failed
C5_Witness ==
    \E j, k \in DOMAIN jobRec :
        /\ jobRec[j].status = "completed" /\ hpc[j] = "done"
        /\ jobRec[k].status = "failed" /\ hpc[k] = "done"

\* C9: a job is completed only if the converter reported success and the handler
\* saw the output file afterwards; when the converter reported success and the
\* handler found no file, the job ends failed.
C9_MissingOutputFails ==
    \A j \in DOMAIN jobRec :
        /\ jobRec[j].status = "completed"
              => /\ result[j].kind = "returned"
                 /\ result[j].success
                 /\ observed[j] = "present"
        /\ (hpc[j] = "done" /\ result[j].kind = "returned" /\ result[j].success
            /\ observed[j] = "missing")
              => /\ jobRec[j].status = "failed"
                 /\ jobRec[j].outputFile = None

\* C9 witness: the converter reported success, wrote nothing, and the handler is
\* through
C9_Witness ==
    \E j \in DOMAIN jobRec :
        /\ hpc[j] = "done"
        /\ result[j].kind = "returned" /\ result[j].success
        /\ observed[j] = "missing"
        /\ jobRec[j].message = "Converted file is missing"

\* C10: when the handler of a job has returned, the job is completed or failed;
\* an exception of the converter or of a later step leaves it failed with the
\* exception text as error.
C10_HandlerEndsTerminal ==
    \A j \in DOMAIN jobRec :
        /\ hpc[j] = "done" => jobRec[j].status \in Terminal
        /\ (hpc[j] = "done" /\ result[j].kind = "raised")
              => /\ jobRec[j].status = "failed"
                 /\ jobRec[j].error = "exception"

\* C10 witness: the converter raised and the handler has returned
C10_Witness ==
    \E j \in DOMAIN jobRec :
        /\ hpc[j] = "done"
        /\ result[j].kind = "raised"
        /\ jobRec[j].status = "failed"

\* the request a job was created with, as kept on its dict
RequestOf(j) ==
    Req(jobRec[j].inputPath, jobRec[j].documentType, jobRec[j].outputProfile,
        jobRec[j].outputFormat)

Families == {"text", "spreadsheet", "presentation", "publisher"}

\* the families whose input extensions contain the lower-cased suffix
FamiliesOf(suffix) == {f \in Families : Lower(suffix) \in DOCUMENT_TYPE_INPUTS[f]}

DetectedFamily(r) == CHOOSE f \in FamiliesOf(r.suffix) : TRUE

EffectiveFamily(r) ==
    IF r.documentType = "auto" THEN DetectedFamily(r) ELSE r.documentType

AllowList(family, profile) == OUTPUT_PROFILE_FORMATS[family][profile]

\* the five checks of the validation, each stated on its own
Check1Fails(r) == FamiliesOf(r.suffix) = {}
Check2Fails(r) == r.documentType \notin Families \cup {"auto"}
Check3Fails(r) == r.outputProfile \notin {"legacy", "modern"}
Check4Fails(r) ==
    /\ r.documentType # "auto"
    /\ FamiliesOf(r.suffix) # {}
    /\ r.documentType # DetectedFamily(r)
Check5Fails(r) ==
    /\ ~Check1Fails(r) /\ ~Check2Fails(r) /\ ~Check3Fails(r)
    /\ \A i \in 1..Len(AllowList(EffectiveFamily(r), r.outputProfile)) :
          AllowList(EffectiveFamily(r), r.outputProfile)[i] # r.outputFormat

ValidationFails(r) ==
    Check1Fails(r) \/ Check2Fails(r) \/ Check3Fails(r) \/ Check4Fails(r) \/ Check5Fails(r)

\* C6: when any of the five validation checks fails for a job, the converter is
\* never invoked for it and its handler leaves it failed.
C6_NoConversionWhenValidationFails ==
    \A j \in DOMAIN jobRec :
        ValidationFails(RequestOf(j))
            => /\ invoked[j] = 0
               /\ hpc[j] \notin {"converting", "returned", "finalizing"}
               /\ hpc[j] = "done" => jobRec[j].status = "failed"

\* C6 witness: input .csv declared presentation has failed with a type mismatch
\* and no converter call
C6_Witness ==
    \E j \in DOMAIN jobRec :
        /\ RequestOf(j) = Req(".csv", "presentation", "modern", ".pdf")
        /\ hpc[j] = "done"
        /\ jobRec[j].status = "failed"
        /\ jobRec[j].message = MsgTypeMismatch
        /\ invoked[j] = 0

\* C7: the failure recorded for a job whose validation fails is that of the
\* first failing check in the order source type, declared type, profile,
\* type agreement, output allow-list; a job whose five checks pass records none.
C7_FirstFailingCheckIsReported ==
    \A j \in DOMAIN jobRec :
        hpc[j] \in {"done", "converting", "returned", "finalizing"} =>
            LET r == RequestOf(j)
                m == jobRec[j].message
            IN  /\ Check1Fails(r) => m = MsgUnsupportedSource
                /\ (~Check1Fails(r) /\ Check2Fails(r)) => m = MsgUnsupportedType
                /\ (~Check1Fails(r) /\ ~Check2Fails(r) /\ Check3Fails(r))
                      => m = MsgUnsupportedProfile
                /\ (~Check1Fails(r) /\ ~Check2Fails(r) /\ ~Check3Fails(r)
                    /\ Check4Fails(r)) => m = MsgTypeMismatch
                /\ (~Check1Fails(r) /\ ~Check2Fails(r) /\ ~Check3Fails(r)
                    /\ ~Check4Fails(r) /\ Check5Fails(r)) => m = MsgOutputNotAllowed
                /\ ~ValidationFails(r) => m \notin ValidationMessages

\* C7 witness: an unknown declared type with an invalid profile is reported as
\* unsupported document type
C7_Witness ==
    \E j \in DOMAIN jobRec :
        /\ RequestOf(j) = Req(".docx", "image", "draft", ".pdf")
        /\ hpc[j] = "done"
        /\ jobRec[j].message = MsgUnsupportedType

\* C8 as stated: a status response of a job that failed because its output
\* extension is not in the allow-list carries that allow-list.
C8_AllowListReturned ==
    \A j \in DOMAIN jobRec :
        (resp[j].code = 200 /\ resp[j].status = "failed"
         /\ resp[j].message = MsgOutputNotAllowed)
            => /\ "allowed_outputs" \in DOMAIN resp[j]
               /\ resp[j].allowed_outputs
                    = AllowList(EffectiveFamily(RequestOf(j)), jobRec[j].outputProfile)

(***************************************************************************)
(* Properties of the worker pool                                           *)
(***************************************************************************)
IsPrefix(a, b) == Len(a) <= Len(b) /\ \A i \in 1..Len(a) : a[i] = b[i]

\* the workers whose handler is executing
Executing == {t \in ThreadIds : wpc[t] = "run"}

\* C11: jobs leave the queue in the order they were submitted, and in a pool
\* configured with one worker the handlers begin in submission order and no
\* two of them execute at the same time
C11_FifoAndOneWorkerSerial ==
    /\ IsPrefix(dequeueLog, submitLog)
    /\ worker_count = 1 =>
          /\ IsPrefix(beginLog, submitLog)
          /\ Cardinality(Executing) <= 1

\* C12: get_position gives the 1-based index of a job that waits in the queue,
\* and None for a job a worker has taken (also while its handler runs) and for
\* an id that was never submitted
C12_PositionOfQueuedOnly ==
    \A j \in 1..(MaxSubmits + 1) :
        /\ \A i \in 1..Len(_queue) : _queue[i] = j => get_position(j) = <<i>>
        /\ InList(j, dequeueLog) => get_position(j) = <<>>
        /\ ~InList(j, submitLog) => get_position(j) = <<>>

C12_Witness ==
    \E t \in ThreadIds :
        /\ wpc[t] = "run"
        /\ get_position(wjob[t]) = <<>>
        /\ Len(_queue) = 1
        /\ get_position(_queue[1]) = <<1>>
        /\ ~InList(MaxSubmits + 1, submitLog)
        /\ get_position(MaxSubmits + 1) = <<>>

\* C13 as stated: once the pool is stopped no worker takes a job off the queue
C13_NoDequeueAfterStop == drained = {}

\* C13, amended: stop() leaves the queue and the jobs in progress as they
\* are, a handler that is executing ends only by returning or raising, and a
\* worker leaves its loop only when the pool is stopped and the queue is
\* empty; while jobs are queued a worker of a stopped pool takes the oldest
C13_StoppedPoolDrainsQueue ==
    [][ /\ (_running /\ ~_running') =>
              (_queue' = _queue /\ _in_progress' = _in_progress /\ wjob' = wjob)
        /\ \A t \in ThreadIds :
              /\ wpc[t] = "run" => wpc'[t] \in {"run", "returned", "raised"}
              /\ (wpc[t] # "exit" /\ wpc'[t] = "exit") =>
                    (wpc[t] = "check" /\ ~_running /\ _queue = <<>>)
              /\ (wpc[t] = "check" /\ wpc'[t] # "check" /\ ~_running /\ _queue # <<>>) =>
                    /\ wpc'[t] = "dequeued"
                    /\ wjob'[t] = Head(_queue)
                    /\ _queue' = Tail(_queue) ]_vars

C13_Witness ==
    /\ ~_running
    /\ \E i \in 1..Len(beginLog) : beginLog[i] \in drained
    /\ \E t \in ThreadIds : wpc[t] = "exit"

\* C16: the handlers executing at one time never outnumber worker_count,
\* whatever calls of start, stop and submit were made
C16_HandlersWithinWorkerCount ==
    worker_count > 0 => Cardinality(Executing) <= worker_count

(***************************************************************************)
(* Properties of the download and its cleanup                              *)
(***************************************************************************)
\* C14: a download request for a job that is queued, running or failed is
\* answered with 409 and changes neither the record nor the files of the
\* temporary directory, and schedules no cleanup; a download is served only
\* for a completed job
C14_OnlyCompletedIsDownloaded ==
    [][\A j \in JobIds, c \in Clients :
          DownloadRequest(j, c) =>
              /\ (_get_job(j) /\ jobRec[j].status \in {"queued", "running", "failed"}) =>
                    /\ dresp'[j][c] = 409
                    /\ dpc'[j][c] = "idle"
                    /\ UNCHANGED <<jobRec, CONVERSION_JOBS, outfile>>
              /\ dresp'[j][c] = 200 =>
                    (_get_job(j) /\ jobRec[j].status = "completed")]_vars

C14_Witness ==
    /\ _get_job(1)
    /\ jobRec[1].status = "failed"
    /\ dresp[1][1] = 409
    /\ dresp[1][2] = 409
    /\ dpc[1] = [c \in Clients |-> "idle"]

\* C15: the record is registered by the start of the job; it leaves the
\* registry only in the cleanup of a served download of the completed job, and
\* that cleanup does remove it; once removed it is never registered again and
\* its dict is not written, a further cleanup changes nothing, and status and
\* download requests that begin afterwards are answered with 404
C15_RecordLivesUntilCleanup ==
    [][\A j \in JobIds :
          /\ (j \notin DOMAIN jobRec /\ j \in DOMAIN jobRec') => _get_job(j)'
          /\ (_get_job(j) /\ ~_get_job(j)') =>
                \E c \in Clients :
                    /\ dpc[j][c] = "pop"
                    /\ dresp[j][c] = 200
                    /\ jobRec[j].status = "completed"
          /\ \A c \in Clients :
                (dpc[j][c] = "pop" /\ dpc'[j][c] = "idle") => ~_get_job(j)'
          /\ (j \in DOMAIN jobRec /\ ~_get_job(j)) =>
                /\ ~_get_job(j)'
                /\ jobRec'[j] = jobRec[j]
                /\ PollBegin(j) => resp'[j].code = 404
                /\ \A c \in Clients : DownloadRequest(j, c) => dresp'[j][c] = 404]_vars

C15_Witness ==
    /\ 1 \in DOMAIN jobRec
    /\ ~_get_job(1)
    /\ popCalls[1] = 2
    /\ resp[1].code = 404
    /\ dresp[1][1] = 404
    /\ dresp[1][2] = 200

(***************************************************************************)
(* Properties of the archive chain                                         *)
(***************************************************************************)
\* the chain specification of the call, lower-cased
SpecOfCall == LowerStr(call.output_format)

\* the positions of the specification that belong to a separator: ">", ",",
\* "|", and a "-" or "=" that stands right before ">"
SeparatorAt(str, i) ==
    \/ str[i] \in {">", ",", "|"}
    \/ str[i] \in {"-", "="} /\ i < Len(str) /\ str[i + 1] = ">"

\* a token runs from a to b: no separator inside, no blank at its ends, and
\* nothing but blanks between it and the separators (or ends) around it
TokenAt(str, a, b) ==
    /\ a <= b
    /\ \A i \in a..b : ~SeparatorAt(str, i)
    /\ str[a] # " " /\ str[b] # " "
    /\ \E l \in 1..a : /\ l = 1 \/ SeparatorAt(str, l - 1)
                       /\ \A i \in l..(a - 1) : str[i] = " "
    /\ \E r \in b..Len(str) : /\ r = Len(str) \/ SeparatorAt(str, r + 1)
                              /\ \A i \in (b + 1)..r : str[i] = " "

Tokens(str) == {ab \in (1..Len(str)) \X (1..Len(str)) : TokenAt(str, ab[1], ab[2])}

\* a token as an extension: the leading dot is added where it is missing
Extension(str, ab) ==
    IF str[ab[1]] \in DottedChunks THEN Flat(SubSeq(str, ab[1], ab[2]))
    ELSE "." \o Flat(SubSeq(str, ab[1], ab[2]))

Recognized == {ARCHIVE_FORMATS[i] : i \in DOMAIN ARCHIVE_FORMATS}

SpecInvalid(str) ==
    \/ Tokens(str) = {}
    \/ \E ab \in Tokens(str) : Extension(str, ab) \notin Recognized

\* the extensions of the tokens, in the order of the tokens
ExpectedChain(str) ==
    LET toks == Tokens(str)
        order == CHOOSE f \in [1..Cardinality(toks) -> toks] :
                     \A i, j \in 1..Cardinality(toks) : i < j => f[i][1] < f[j][1]
    IN  [i \in 1..Cardinality(toks) |-> Extension(str, order[i])]

\* convert raised UnsupportedFormatError before doing anything
RaisedUnsupported ==
    /\ cpc = "done"
    /\ cresult.kind = "raised"
    /\ cresult.message = "UnsupportedFormatError"
    /\ steps = <<>>
    /\ writtenPaths = {}
    /\ fs = InitialFs
    /\ tempDirs = {}

\* C17 as stated: whatever the input, a chain specification that is empty,
\* has no token or has a token that is no archive extension makes convert fail
\* with UnsupportedFormat with nothing executed or written, and any other
\* specification gives the extensions of its tokens in their order
C17_InvalidChainIsUnsupported ==
    cpc # "idle" =>
        IF SpecInvalid(SpecOfCall) THEN RaisedUnsupported
        ELSE call.input_file \in DOMAIN InitialFs => target_chain = ExpectedChain(SpecOfCall)

\* C17, amended: the same for an input that exists; for an input that does not
\* exist convert returns "Input not found" before it looks at the chain
C17_InvalidChainIsUnsupportedForExistingInput ==
    cpc # "idle" =>
        IF call.input_file \in DOMAIN InitialFs
        THEN IF SpecInvalid(SpecOfCall) THEN RaisedUnsupported
             ELSE cresult.kind # "raised" /\ target_chain = ExpectedChain(SpecOfCall)
        ELSE /\ cpc = "done"
             /\ cresult.kind = "returned"
             /\ ~cresult.success
             /\ cresult.message = "Input not found"
             /\ steps = <<>> /\ writtenPaths = {} /\ fs = InitialFs /\ tempDirs = {}

C17_Witness ==
    /\ call.input_file \in DOMAIN InitialFs
    /\ Cardinality(Tokens(SpecOfCall)) = 2
    /\ \E ab \in Tokens(SpecOfCall) : Extension(SpecOfCall, ab) \in Recognized
    /\ \E ab \in Tokens(SpecOfCall) : Extension(SpecOfCall, ab) \notin Recognized
    /\ RaisedUnsupported

\* the files that are left in the folder of the chain
ChainFiles == {path \in DOMAIN fs : path[1] = "chain"}

\* C18: when a step fails, no later step runs, the result names the step and
\* carries the audit entries of the steps before it, and no temporary
\* directory is left
C18_FailedStepReportsAudit ==
    (cpc = "done" /\ cresult.failed_step > 0) =>
        /\ cresult.failed_step = Len(steps) + 1
        /\ tempDirs = {} /\ ChainFiles = {}
        /\ Len(steps) > 0 => ("steps" \in cresult.keys /\ cresult.steps = steps)

\* C19: the call never writes its input: the input holds what it held, and
\* the paths written are in the folder of the chain or are the final output
C19_InputNeverWritten ==
    (cpc # "idle" /\ call.input_file \in DOMAIN InitialFs) =>
        /\ call.input_file \notin writtenPaths
        /\ call.input_file \in DOMAIN fs
        /\ fs[call.input_file] = InitialFs[call.input_file]
        /\ \A path \in writtenPaths : path[1] = "chain" \/ path = final_output_path

\* what a tar archive unpacks to
Unpacked(path) ==
    IF path \in DOMAIN fs /\ fs[path].enc \in {"tar", "tar.gz", "tar.bz2", "tar.xz"}
    THEN fs[path].items ELSE {}

\* the call put an existing single file through .zip and then .tar.gz
RoundTripCall ==
    /\ cpc = "done"
    /\ call.input_file \in DOMAIN InitialFs
    /\ InitialFs[call.input_file].kind = "file"
    /\ target_chain = <<".zip", ".tar.gz">>

\* the final archive unpacks to the input file, name and content
RoundTripHolds ==
    /\ cresult.success
    /\ Unpacked(final_output_path) =
          {Entry(call.input_file[2], InitialFs[call.input_file])}

\* C20 as stated: any single file comes back from .zip then .tar.gz unchanged
C20_RoundTripOfAnyFile == RoundTripCall => RoundTripHolds

\* C20, amended: a single file whose name has no archive suffix comes back
\* from .zip then .tar.gz unchanged
C20_RoundTripOfPlainFile ==
    (RoundTripCall /\ _detect_archive_format(call.input_file[2]) = None) => RoundTripHolds

C20_Witness ==
    /\ RoundTripCall
    /\ call.input_file = InPath(<<"f", ".txt">>)
    /\ cresult.success
    /\ Len(steps) = 2
    /\ Unpacked(final_output_path) = {Entry(<<"f", ".txt">>, RawFile("c1"))}

\* the loop of the chain is running
InChain == cpc \in {"step", "compress"}

\* C26: step 1 takes the input of the call and every later step takes the
\* output file the step before it wrote; the steps before the last write into
\* the folder of the chain and not the final output path; a successful chain
\* of n steps has n audit entries in chain order, the last one naming the
\* final output path, and each entry's "from" is the "to" of the entry before
C26_StepsAreWiredInOrder ==
    /\ InChain =>
          /\ Len(steps) = index
          /\ index = 0 => current_input = call.input_file
          /\ index > 0 =>
                /\ current_input = steps[index].output_file
                /\ current_input \in writtenPaths
                /\ current_input \in DOMAIN fs
          /\ \A path \in writtenPaths : path[1] = "chain" /\ path # final_output_path
    /\ (InChain \/ (cpc = "done" /\ cresult.success)) =>
          /\ \A i \in 1..Len(steps) :
                /\ steps[i].step = i
                /\ steps[i].to = target_chain[i]
                /\ i < Len(target_chain) =>
                      /\ steps[i].output_file = ChainPath(<<StepName(i)>> \o ChunksOf(target_chain[i]))
                      /\ steps[i].output_file # final_output_path
                /\ i > 1 => steps[i].from = steps[i - 1].to
    /\ (cpc = "done" /\ cresult.success) =>
          /\ cresult.steps = steps
          /\ Len(steps) = Len(target_chain)
          /\ steps[Len(steps)].output_file = final_output_path

\* a chain of three steps succeeded: .tar.gz, then .xz, then .zip
C26_Witness ==
    /\ cpc = "done" /\ cresult.success
    /\ target_chain = <<".tar.gz", ".xz", ".zip">>
    /\ Len(cresult.steps) = 3
    /\ cresult.steps[2].from = ".tar.gz"
    /\ cresult.steps[3].from = ".xz"

\* the recognized suffixes the lower-cased name ends with
Matching(name) == {fmt \in Recognized : EndsWith(LowerStr(name), fmt)}

\* C27: the detection returns the longest recognized suffix the lower-cased
\* name ends with, so .tar.gz, .tar.bz2 and .tar.xz before .gz, .bz2 and .xz,
\* and returns none exactly when the name ends with no recognized suffix
C27_LongestSuffixDetected ==
    cpc = "detected" =>
        LET name == current_input[2]
        IN  /\ source_format = None <=> Matching(name) = {}
            /\ source_format # None =>
                  /\ source_format \in Matching(name)
                  /\ \A fmt \in Matching(name) : Len(fmt) <= Len(source_format)
            /\ (Len(name) > 1 /\ LowerStr(SubSeq(name, Len(name) - 1, Len(name))) = <<".tar", ".gz">>)
                  => source_format = ".tar.gz"

\* a name in capitals that ends with .tar.gz and so with .gz
C27_Witness ==
    /\ cpc = "detected"
    /\ current_input[2] = <<"a", ".TAR", ".Gz">>
    /\ Matching(current_input[2]) = {".tar.gz", ".gz"}
    /\ source_format = ".tar.gz"

\* C30: when convert returns success, an archive is at the path the result
\* reports as output_file, for every chain and every output_file of the caller
C30_ArchiveAtReportedPath ==
    (cpc = "done" /\ cresult.success) =>
        /\ cresult.output_file \in DOMAIN fs
        /\ fs[cresult.output_file].kind = "file"
        /\ fs[cresult.output_file].enc # "raw"

(***************************************************************************)
(* Properties of merge_files                                               *)
(***************************************************************************)
\* the parts of the call as Path objects, in ascending order of their paths
InPathOrder(file_parts) ==
    sorted([i \in DOMAIN file_parts |-> [type |-> "Path", text |-> file_parts[i].text]])

\* C21: merge_files returns the output path and the output holds the contents
\* of the parts in ascending order of their paths, however the parts are
\* listed and whether they are given as str or as Path
C21_MergeInPathOrder ==
    mcall.called =>
        /\ mresult = [kind |-> "returned", value |-> mcall.output_file]
        /\ mfiles[mcall.output_file] =
               Concatenation(InPathOrder(mcall.file_parts), PartFiles)

(***************************************************************************)
(* More properties of the worker pool                                      *)
(***************************************************************************)
\* the workers that hold a job: from the step that took it off the queue to
\* the finally block after its handler
Holding == {t \in ThreadIds : wpc[t] \in {"dequeued", "run", "returned", "raised"}}

\* C22: a job that a worker has taken and not finished is in _in_progress from
\* the step that took it off the queue on, and a job is in _in_progress only
\* while a worker holds it: the finally block removes it after a handler that
\* returned and after one that raised
C22_MarkedWhileHeld ==
    /\ _in_progress = {wjob[t] : t \in Holding}
    /\ \A t \in Holding : get_position(wjob[t]) = <<>>
    /\ in_progress_count = Cardinality(Holding)
    /\ snapshot.running = Cardinality(Holding)

C22_Witness ==
    /\ \E t \in ThreadIds : wpc[t] = "dead" /\ wjob[t] \notin _in_progress
    /\ \E t \in ThreadIds : wpc[t] = "dequeued" /\ _in_progress = {wjob[t]}

\* the worker threads that have not ended
Live == {t \in ThreadIds : wpc[t] \in {"check", "wait", "dequeued", "run", "returned", "raised"}}

\* C23: no job ends a worker: whatever the handlers did, no worker thread
\* has died and a running pool has no fewer than worker_count live workers
C23_FailureKeepsWorker ==
    /\ \A t \in ThreadIds : wpc[t] # "dead"
    /\ _running => Cardinality(Live) >= worker_count

\* the jobs that were submitted and whose handler has not begun
Pending == {j \in PoolJobs : InList(j, submitLog) /\ ~InList(j, beginLog)}

\* C25: while the pool runs, every submitted job is passed to the handler in
\* the end, also one submitted before start(), and no worker stays suspended
\* while jobs wait
C25_SubmittedJobRuns ==
    /\ (_running /\ Pending # {}) ~> (Pending = {})
    /\ (Waiters # {} /\ _queue # <<>>) ~> (Waiters = {} \/ _queue = <<>>)

\* both jobs were submitted before start() and a worker that had been
\* suspended ran one of them
C25_Witness ==
    /\ _running
    /\ Len(submitLog) = 2
    /\ beginLog = submitLog
    /\ \E t \in ThreadIds : wpc[t] = "wait"

\* C28: in_progress_count() and snapshot()["running"] are the number of
\* workers that hold a job, also when an id is submitted more than once
C28_CountIsWorkersHolding ==
    /\ in_progress_count = Cardinality(Holding)
    /\ snapshot.running = Cardinality(Holding)

(***************************************************************************)
(* Properties of the status response                                       *)
(***************************************************************************)
\* C24: a status response holds values the record had together at one
\* instant; the record has progress 100 exactly when its status is completed
\* or failed, so a response has too
C24_ResponseIsSnapshot ==
    \A j \in JobIds :
        resp[j].code = 200 => (resp[j].progress = 100 <=> resp[j].status \in Terminal)

(***************************************************************************)
(* Properties of the two document endpoints                                *)
(***************************************************************************)
\* C29: for the same suffix, declared type, profile and output format the
\* job handler and convert_document come to the same verdict: both go on to
\* the converter, or both reject with the same message
C29_SameVerdict ==
    (/\ sync.pc = "done"
     /\ hpc[1] \in {"converting", "returned", "finalizing", "done"})
    => /\ sync.request = RequestOf(1)
       /\ sync.invoked <=> (hpc[1] = "converting" \/ invoked[1] > 0)
       /\ ~sync.invoked =>
             /\ sync.code = 400
             /\ jobRec[1].status = "failed"
             /\ jobRec[1].message = sync.message

\* a sheet declared as a presentation is rejected by both for the mismatch
C29_Witness ==
    /\ sync.pc = "done"
    /\ hpc[1] = "done"
    /\ sync.request = Req(".csv", "presentation", "modern", ".pdf")
    /\ sync.message = MsgTypeMismatch
    /\ jobRec[1].message = MsgTypeMismatch
    /\ ~sync.invoked /\ invoked[1] = 0

====
